---- MODULE Spec2Model ----
(***************************************************************************)
(* Model of the ITSC 2214 course extension: the assignment download        *)
(* pipeline (downloadAndUnzip in its three revisions that sanitise the     *)
(* label), destination-name sanitisation, and the manifest parsers with    *)
(* the tree providers built on them.                                       *)
(*                                                                         *)
(* Strings are sequences of one-character strings, so that the regular     *)
(* expressions of the code are computed character by character.  A path    *)
(* is a sequence of names; the file system is a set of nodes.              *)
(***************************************************************************)
EXTENDS Naturals, Sequences, FiniteSets, TLC

VARIABLES
    \* ---- destination-name sanitisation, applied as a pure function
    sLabel,      \* the label handed to the sanitiser
    sOut,        \* result of the first application
    sOut2,       \* result of applying it to its own output
    sStage,      \* 0: nothing applied, 1: applied once, 2: applied twice
    \* ---- downloadAndUnzip, one invocation
    rev,         \* which revision of downloadAndUnzip runs
    label,       \* itemData.label
    stored,      \* context.globalState 'itsc2214Dir' (NoPath when unset)
    archive,     \* the tree the zip at itemData.url holds
    fs,          \* the file system
    fs0,         \* the file system when the invocation started
    pc,          \* position of the invocation
    dest,        \* unzipPath / projectUri once derived (NoPath before)
    tempDir,     \* the scratch directory once created (NoPath before)
    result,      \* what the promise settled with
    choice,      \* the answer to the overwrite prompt ("none": not asked)
    fetched,     \* TRUE once fetch(itemData.url) was issued
    cmd,         \* how downloadAssignment, the command awaiting the invocation, ended
    \* ---- manifest parsing and the tree providers
    mShape,      \* which manifest shape / provider is exercised
    mDoc,        \* the document the manifest URL serves
    mPc,         \* position of the load
    mData,       \* the nodes the provider presents at the root
    mOutcome,    \* how the load ended
    mErrored,    \* context flag web-CAT.targetsErrored
    mLoaded,     \* context flag web-CAT.targetsLoaded
    mFired,      \* number of tree-changed notifications fired
    mGen,        \* number of the current fetch (1 is the first)
    mDataGen,    \* the fetch that produced mData (0: none)
    \* ---- uploadItem, the invocations of one session
    uDoc,        \* the submission-targets manifest the tree was loaded from
    uItem,       \* item.item of the leaf the command is invoked on
    uPc,         \* position of the invocation
    uRun,        \* number of the invocation within the session
    uGlobal,     \* context.globalState entries of the placeholder tokens
    uGlobal0,    \* uGlobal as it was when the invocation began
    uLookup,     \* whether the re-fetched tree held the selected entry
    uVars,       \* the invocation's vars map
    uPrompts,    \* input boxes shown per token, per invocation
    uAssignment, \* the assignment resolved from the re-fetched tree
    uI,          \* index of the next transport param
    uDir,        \* the folder picked in the open dialog
    uBody,       \* the form fields appended so far
    uIgnore,     \* the ignore list handed to glob
    uArchive,    \* the paths put into the archive
    uPost,       \* how the POST ended ("none": not issued)
    uMsgs,       \* the messages shown to the user
    uUnhandled,  \* TRUE when the invocation's promise rejected with nobody catching
    \* ---- the cancellable download command (downloadAssignmentCommand)
    cdPc,        \* position of the command
    cdDir,       \* TRUE when globalState holds itsc2214Dir
    cdRequest,   \* state of the https.get request
    cdLeft,      \* chunks of the response body not yet received
    cdStream,    \* state of fileStream
    cdToken,     \* TRUE once cancellation was requested
    cdListener,  \* state of the onCancellationRequested listener
    cdUnlinks,   \* fs.unlink calls whose callback has not run yet
    cdFile,      \* what is at destPath: "none", "old" (from before), "new"
    cdPromise,   \* the promise handed to withProgress
    cdMsgs,      \* the messages the command has shown
    \* ---- two invocations of downloadAndUnzip for one entry
    ccFs,        \* the file system both invocations work on
    ccArchive,   \* the archive behind the entry's url
    ccPc,        \* position of each invocation
    ccResult,    \* how each invocation's promise settled
    ccTouched,   \* what the second invocation did to the destination while the
                 \* first was populating it
    \* ---- overlapping refresh() calls of one AsyncTreeDataProvider
    rfStarted,   \* number of refresh() calls made so far
    rfPc,        \* position of each call
    rfData,      \* the call whose result this.data holds (0: the initial [])
    rfLoaded,    \* context flag web-CAT.targetsLoaded
    rfErrored,   \* context flag web-CAT.targetsErrored
    rfFired,     \* number of change events fired
    \* ---- createJavaProject and setupDirectory
    cjRev,       \* which revision of the command runs
    cjStored,    \* globalState itsc2214Dir (NoPath: not set)
    cjStored0,   \* cjStored when the command began
    cjFs,        \* the file system
    cjFs0,       \* the file system when the project name was accepted
    cjPc,        \* position of the command
    cjBase,      \* the local itsc2214Dir
    cjName,      \* the accepted project name
    cjProject,   \* projectUri / projectDir
    cjChoice,    \* the answer to "Create a new copy?"
    cjN,         \* the counter of the copy-name search
    cjCancelled, \* TRUE when the user dismissed the setup dialogs
    cjCreated    \* TRUE once the scaffold was written

sanVars == <<sLabel, sOut, sOut2, sStage>>
dlVars  == <<rev, label, stored, archive, fs, fs0, pc, dest, tempDir, result, choice, fetched, cmd>>
mfVars  == <<mShape, mDoc, mPc, mData, mOutcome, mErrored, mLoaded, mFired, mGen, mDataGen>>
upVars  == <<uDoc, uItem, uPc, uRun, uGlobal, uGlobal0, uLookup, uVars, uPrompts, uAssignment, uI, uDir,
             uBody, uIgnore, uArchive, uPost, uMsgs, uUnhandled>>
cdVars  == <<cdPc, cdDir, cdRequest, cdLeft, cdStream, cdToken, cdListener, cdUnlinks,
             cdFile, cdPromise, cdMsgs>>
ccVars  == <<ccFs, ccArchive, ccPc, ccResult, ccTouched>>
rfVars  == <<rfStarted, rfPc, rfData, rfLoaded, rfErrored, rfFired>>
cjVars  == <<cjRev, cjStored, cjStored0, cjFs, cjFs0, cjPc, cjBase, cjName, cjProject,
             cjChoice, cjN, cjCancelled, cjCreated>>
cmdVars == <<cdVars, ccVars, rfVars, cjVars>>
vars    == <<sanVars, dlVars, mfVars, upVars, cmdVars>>

Undef  == "undefined"
NoPath == <<>>

(***************************************************************************)
(* Characters and strings                                                  *)
(***************************************************************************)
Alnum      == {"H", "W", "1"}
Hyphen     == "-"
Space      == " "
Tab        == "TAB"
Whitespace == {Space, Tab}
OtherChars == {"_", "."}
Chars      == Alnum \cup {Hyphen} \cup Whitespace \cup OtherChars

\* bound on the length of the labels the sanitiser is applied to
MaxLabelLen == 4

Strings(n) == UNION {[1..k -> Chars] : k \in 0..n}

\* the character class [a-zA-Z0-9- ] of the first regular expression
Allowed == Alnum \cup {Hyphen, Space}

\* .replace(/[^a-zA-Z0-9- ]/, '') without the g flag: only the first match goes
RECURSIVE StripFirstInvalid(_)
StripFirstInvalid(s) ==
    IF s = <<>> THEN <<>>
    ELSE IF Head(s) \notin Allowed THEN Tail(s)
    ELSE <<Head(s)>> \o StripFirstInvalid(Tail(s))

\* .replace(/[^a-zA-Z0-9- ]/g, ''): every character outside the class is removed
StripInvalid(s) == SelectSeq(s, LAMBDA c : c \in Allowed)

\* .replace(/\s/g, '-'): every whitespace character becomes a hyphen of its own
ReplaceEachWhitespace(s) == [i \in 1..Len(s) |-> IF s[i] \in Whitespace THEN Hyphen ELSE s[i]]

\* .replace(/\s+/g, '-'): every maximal run of whitespace becomes one hyphen
RECURSIVE CollapseWhitespace(_)
CollapseWhitespace(s) ==
    IF s = <<>> THEN <<>>
    ELSE IF Head(s) \in Whitespace
         THEN IF Tail(s) # <<>> /\ Head(Tail(s)) \in Whitespace
              THEN CollapseWhitespace(Tail(s))
              ELSE <<Hyphen>> \o CollapseWhitespace(Tail(s))
         ELSE <<Head(s)>> \o CollapseWhitespace(Tail(s))

\* the two replacements in the wrong order
SanitizeCollapseFirst(s) == StripInvalid(CollapseWhitespace(s))

\* the first replacement without its g flag
SanitizeFirstOnly(s) == CollapseWhitespace(StripFirstInvalid(s))

\* itemData.label.replace(/[^a-zA-Z0-9- ]/g, '').replace(/\s+/g, '-')
Sanitize(s) == CollapseWhitespace(StripInvalid(s))

(***************************************************************************)
(* Sanitisation as a pure function: drawn labels, applied once and again.  *)
(***************************************************************************)
SanIdle == sLabel = <<>> /\ sOut = <<>> /\ sOut2 = <<>> /\ sStage = 0

SanInit ==
    /\ sLabel \in Strings(MaxLabelLen)
    /\ sOut = <<>>
    /\ sOut2 = <<>>
    /\ sStage = 0

ApplySanitize ==
    /\ sStage = 0
    /\ sOut' = Sanitize(sLabel)
    /\ sStage' = 1
    /\ UNCHANGED <<sLabel, sOut2>>
    /\ UNCHANGED <<dlVars, mfVars, upVars, cmdVars>>

ApplySanitizeAgain ==
    /\ sStage = 1
    /\ sOut2' = Sanitize(sOut)
    /\ sStage' = 2
    /\ UNCHANGED <<sLabel, sOut>>
    /\ UNCHANGED <<dlVars, mfVars, upVars, cmdVars>>

(***************************************************************************)
(* Paths and the file system                                               *)
(***************************************************************************)
NBase     == <<"b">>
NProjects == <<"p","r","o","j","e","c","t","s">>
NTmp      == <<"t">>
NUnzip    == <<"i","t","s","c","2","2","1","4","-","u","n","z","i","p","-","X">>
NExt      == <<"e">>
NJars     == <<"J","A","R","S">>
NLib      == <<"l","i","b">>
NJar      == <<"k",".","j","a","r">>
NOld      == <<"o","l","d">>
NOther    == <<"o","t","h","e","r">>
NMacosx   == <<"_","_","M","A","C","O","S","X">>
NDotFile  == <<".","_","F","o","o">>
NFoo      == <<"F","o","o">>
NA        == <<"a">>
NReadme   == <<"R">>
NCacheJar == <<"c",".","j","a","r">>
NVscode   == <<".","v","s","c","o","d","e">>
NSettings == <<"s","e","t","t","i","n","g","s",".","j","s","o","n">>

BaseDir    == <<NBase>>                \* the directory itsc2214Dir names
TmpDir     == <<NTmp>>                 \* os.tmpdir()
ExtJarsDir == <<NExt, NJars>>          \* <extension>/src/JARS

Dir(p)      == [path |-> p, kind |-> "dir", data |-> ""]
File(p, d)  == [path |-> p, kind |-> "file", data |-> d]

IsPrefix(p, q) == Len(p) <= Len(q) /\ SubSeq(q, 1, Len(p)) = p
Suffix(p, q)   == SubSeq(q, Len(p) + 1, Len(q))

\* path.join(dir, name) / Uri.joinPath(dir, name): an empty name adds no segment
Join(p, name) == IF name = <<>> THEN p ELSE Append(p, name)

Exists(f, p) == \E n \in f : n.path = p
IsDir(f, p)  == \E n \in f : n.path = p /\ n.kind = "dir"

\* fs.mkdirSync(p, {recursive: true}) / workspace.fs.createDirectory(p)
MkdirP(f, p) == f \cup {Dir(SubSeq(p, 1, i)) : i \in {j \in 1..Len(p) : ~Exists(f, SubSeq(p, 1, j))}}

\* fs.rmSync(p, {recursive: true, force: true}) / workspace.fs.delete(p, {recursive: true})
RmRf(f, p) == {n \in f : ~IsPrefix(p, n.path)}

\* fs.readdirSync(p) / workspace.fs.readDirectory(p): the nodes directly under p
ReadDir(f, p) == {n \in f : Len(n.path) = Len(p) + 1 /\ IsPrefix(p, n.path)}

\* fs.renameSync(old, new) / workspace.fs.rename(old, new): the subtree moves
Rename(f, old, new) ==
    LET sub == {n \in f : IsPrefix(old, n.path)}
    IN  (f \ sub) \cup {[n EXCEPT !.path = new \o Suffix(old, n.path)] : n \in sub}

\* the tree below p, with paths relative to p
Subtree(f, p) == {[n EXCEPT !.path = Suffix(p, n.path)] : n \in {m \in f : IsPrefix(p, m.path) /\ m.path # p}}

\* unzip.Extract({path: at}): the entries of tree are written below at
ExtractInto(f, at, tree) ==
    LET placed == {[n EXCEPT !.path = at \o n.path] : n \in tree}
    IN  {m \in f : \A n \in placed : m.path # n.path} \cup placed

\* the entries of an archive below the top-level names in S
TopNames(tree)     == {n.path[1] : n \in tree}
Restrict(tree, S)  == {n \in tree : n.path[1] \in S}

\* file.startsWith('._')
StartsWithDotUnderscore(name) == Len(name) >= 2 /\ name[1] = "." /\ name[2] = "_"

\* fileName.endsWith('.jar')
EndsWithJar(name) == Len(name) >= 4 /\ SubSeq(name, Len(name) - 3, Len(name)) = <<".","j","a","r">>

(***************************************************************************)
(* downloadAndUnzip.  Three revisions sanitise the label:                  *)
(*   "direct"   extracts straight into the destination                     *)
(*   "fsSync"   extracts into a temp directory, node fs calls              *)
(*   "vscodeFs" extracts into a temp directory, workspace.fs calls         *)
(***************************************************************************)
Revisions == {"direct", "fsSync", "vscodeFs"}
UsesTemp(r) == r \in {"fsSync", "vscodeFs"}

Labels == { <<"H","W","1">>, <<"H"," ","_"," ","W">>, <<".",".">> }

\* the pieces archives are put together from
PieceFoo  == {Dir(<<NFoo>>), File(<<NFoo, NA>>, "zip"), Dir(<<NFoo, NFoo>>), File(<<NFoo, NFoo, NA>>, "zip")}
PieceMac  == {Dir(<<NMacosx>>), File(<<NMacosx, NA>>, "zip")}
PieceDot  == {File(<<NDotFile>>, "zip")}
PieceFile == {File(<<NReadme>>, "zip")}
Archives  == {UNION S : S \in SUBSET {PieceFoo, PieceMac, PieceDot, PieceFile}}

\* what exists whatever the workspace holds: os.tmpdir() and the extension's JARS
FsOutside == {Dir(TmpDir), Dir(<<NExt>>), Dir(ExtJarsDir), File(ExtJarsDir \o <<NJar>>, "jar")}

\* the directory the destination is created in
TargetDir(r, base) == IF r = "fsSync" THEN Append(base, NProjects) ELSE base

\* unzipPath / projectUri
DestPath(r, base, lbl) == Join(TargetDir(r, base), Sanitize(lbl))

\* the workspace with the destination of this label already populated
FsWithDest(r, lbl) ==
    LET d == DestPath(r, BaseDir, lbl)
    IN  MkdirP(FsOutside, d) \cup {File(Append(d, NOld), "old"), File(Append(BaseDir, NOther), "old")}

\* <itsc2214Dir>/JARS, the library cache the project commands download into
CacheDir(base) == Append(base, NJars)

\* the workspace with a populated library cache and no destination yet
FsWithCache ==
    MkdirP(FsOutside, CacheDir(BaseDir)) \cup {File(Append(CacheDir(BaseDir), NCacheJar), "jar")}

InitialFs(r, lbl) ==
    { FsOutside,
      MkdirP(FsOutside, BaseDir) \cup {File(Append(BaseDir, NOther), "old")},
      FsWithDest(r, lbl),
      FsWithCache }

Pending       == [kind |-> "pending", path |-> NoPath]
ReturnedUndef == [kind |-> "undefined", path |-> NoPath]
Rejected      == [kind |-> "rejected", path |-> NoPath]
Resolved(p)   == [kind |-> "resolved", path |-> p]

DlIdle ==
    /\ rev = "direct" /\ label = <<>> /\ stored = NoPath /\ archive = {} /\ fs = {} /\ fs0 = {}
    /\ pc = "idle" /\ dest = NoPath /\ tempDir = NoPath /\ result = Pending
    /\ choice = "none" /\ fetched = FALSE /\ cmd = "none"

DlInit ==
    /\ rev \in Revisions
    /\ label \in Labels
    /\ stored \in {NoPath, BaseDir}
    /\ archive \in Archives
    /\ fs \in InitialFs(rev, label)
    /\ fs0 = fs
    /\ pc = "start"
    /\ dest = NoPath
    /\ tempDir = NoPath
    /\ result = Pending
    /\ choice = "none"
    /\ fetched = FALSE
    /\ cmd = "awaiting"

\* what the answer to "Overwrite?" does to the file system when nothing is asked first
OverwriteDeletesBeforeAsking(r, f, d, c) == MkdirP(RmRf(f, d), d)

\* the file system after the answer c to the overwrite prompt for destination d:
\* anything but 'Yes' returns; 'Yes' removes and recreates d (the direct revision
\* keeps d and extracts over it)
OverwriteAnswered(r, f, d, c) ==
    IF c # "Yes" THEN f
    ELSE IF r = "direct" THEN f
    ELSE MkdirP(RmRf(f, d), d)

\* removal of the platform metadata below the temp directory t
StripMetadata(r, f, t) ==
    IF r = "fsSync"
    THEN LET dotted == {n \in ReadDir(f, t) : StartsWithDotUnderscore(n.path[Len(n.path)])}
             f1     == RmRf(f, Append(t, NMacosx))
         IN  {m \in f1 : \A n \in dotted : ~IsPrefix(n.path, m.path)}
    ELSE RmRf(f, Append(t, NMacosx))

\* the temp directory itself, whatever it holds
ProjectRootNeverCollapsed(f, t) == t

\* projectRoot: the single top-level directory when there is exactly one entry
\* and it is a directory, the temp directory otherwise
ProjectRoot(f, t) ==
    LET entries == ReadDir(f, t)
    IN  IF Cardinality(entries) = 1 /\ (\A e \in entries : e.kind = "dir")
        THEN (CHOOSE e \in entries : TRUE).path
        ELSE t

\* the loop of renames: every entry of from named in S moves to the same name in to
RECURSIVE MoveEntries(_, _, _, _)
MoveEntries(f, from, to, S) ==
    IF S = {} THEN f
    ELSE LET x == CHOOSE y \in S : TRUE
         IN  MoveEntries(Rename(f, Append(from, x), Append(to, x)), from, to, S \ {x})

\* copyJarsToDir(target, folder, context)
CopyJarsToDir(f, target, folder) ==
    LET lib  == Append(target, folder)
        f1   == MkdirP(f, lib)
        jars == {n \in ReadDir(f1, ExtJarsDir) : n.kind = "file" /\ EndsWithJar(n.path[Len(n.path)])}
    IN  ExtractInto(f1, lib, {[n EXCEPT !.path = <<n.path[Len(n.path)]>>] : n \in jars})

\* what follows the move in the finish handler once the temp directory is gone
AfterMove(r, f, d) == IF r = "vscodeFs" THEN CopyJarsToDir(f, d, NLib) ELSE f

EntryNames(f, p) == {n.path[Len(n.path)] : n \in ReadDir(f, p)}

\* entry of downloadAndUnzip up to the first await that another party answers
DlStart ==
    /\ pc = "start"
    /\ IF stored = NoPath \/ (rev # "vscodeFs" /\ ~Exists(fs, stored))
       THEN /\ pc' = "done"
            /\ result' = ReturnedUndef
            /\ UNCHANGED <<fs, dest>>
       ELSE LET f1 == IF rev = "fsSync" THEN MkdirP(fs, TargetDir(rev, stored)) ELSE fs
                d  == DestPath(rev, stored, label)
            IN  /\ dest' = d
                /\ result' = result
                /\ IF Exists(f1, d)
                   THEN fs' = f1 /\ pc' = "prompt"
                   ELSE fs' = MkdirP(f1, d) /\ pc' = "fetch"
    /\ UNCHANGED <<rev, label, stored, archive, fs0, tempDir, choice, fetched>>
    /\ UNCHANGED cmd
    /\ UNCHANGED <<sanVars, mfVars, upVars, cmdVars>>

\* the user answers (or dismisses) the overwrite prompt
DlPromptAnswer ==
    /\ pc = "prompt"
    /\ \E c \in {"Yes", "No", "dismissed"} :
        /\ choice' = c
        /\ fs' = OverwriteAnswered(rev, fs, dest, c)
        /\ IF c # "Yes"
           THEN pc' = "done" /\ result' = ReturnedUndef
           ELSE pc' = "fetch" /\ result' = result
    /\ UNCHANGED <<rev, label, stored, archive, fs0, dest, tempDir, fetched>>
    /\ UNCHANGED cmd
    /\ UNCHANGED <<sanVars, mfVars, upVars, cmdVars>>

\* fetch(itemData.url) settles: ok, a response that is not ok, or a network failure
DlFetch ==
    /\ pc = "fetch"
    /\ fetched' = TRUE
    /\ \E o \in {"ok", "notOk", "throws"} :
        IF o = "ok"
        THEN /\ pc' = "extract"
             /\ result' = result
             /\ IF UsesTemp(rev)
                THEN tempDir' = Append(TmpDir, NUnzip) /\ fs' = MkdirP(fs, Append(TmpDir, NUnzip))
                ELSE UNCHANGED <<tempDir, fs>>
        ELSE /\ pc' = "done"
             /\ result' = IF o = "notOk" THEN ReturnedUndef ELSE Rejected
             /\ UNCHANGED <<tempDir, fs>>
    /\ UNCHANGED <<rev, label, stored, archive, fs0, dest, choice>>
    /\ UNCHANGED cmd
    /\ UNCHANGED <<sanVars, mfVars, upVars, cmdVars>>

ExtractTarget == IF UsesTemp(rev) THEN tempDir ELSE dest

\* the extract stream emits 'finish': every entry of the archive is written
DlExtractFinish ==
    /\ pc = "extract"
    /\ fs' = ExtractInto(fs, ExtractTarget, archive)
    /\ IF UsesTemp(rev)
       THEN pc' = "finish" /\ result' = result
       ELSE pc' = "done" /\ result' = Resolved(dest)
    /\ UNCHANGED <<rev, label, stored, archive, fs0, dest, tempDir, choice, fetched>>
    /\ UNCHANGED cmd
    /\ UNCHANGED <<sanVars, mfVars, upVars, cmdVars>>

\* the extract stream emits 'error' after writing some of the entries
DlExtractError ==
    /\ pc = "extract"
    /\ \E S \in SUBSET TopNames(archive) :
        fs' = ExtractInto(fs, ExtractTarget, Restrict(archive, S))
    /\ pc' = "done"
    /\ result' = Rejected
    /\ UNCHANGED <<rev, label, stored, archive, fs0, dest, tempDir, choice, fetched>>
    /\ UNCHANGED cmd
    /\ UNCHANGED <<sanVars, mfVars, upVars, cmdVars>>

\* the 'finish' handler runs to its resolve
DlFinishOk ==
    /\ pc = "finish"
    /\ LET f1   == StripMetadata(rev, fs, tempDir)
           root == ProjectRoot(f1, tempDir)
           f2   == MoveEntries(f1, root, dest, EntryNames(f1, root))
       IN  fs' = AfterMove(rev, RmRf(f2, tempDir), dest)
    /\ pc' = "done"
    /\ result' = Resolved(dest)
    /\ UNCHANGED <<rev, label, stored, archive, fs0, dest, tempDir, choice, fetched>>
    /\ UNCHANGED cmd
    /\ UNCHANGED <<sanVars, mfVars, upVars, cmdVars>>

\* a rename of the 'finish' handler throws after the entries in moved were moved
DlFinishMoveFails ==
    /\ pc = "finish"
    /\ LET f1   == StripMetadata(rev, fs, tempDir)
           root == ProjectRoot(f1, tempDir)
       IN  \E moved \in SUBSET EntryNames(f1, root) :
            /\ moved # EntryNames(f1, root)
            /\ fs' = MoveEntries(f1, root, dest, moved)
    /\ pc' = "done"
    /\ result' = Rejected
    /\ UNCHANGED <<rev, label, stored, archive, fs0, dest, tempDir, choice, fetched>>
    /\ UNCHANGED cmd
    /\ UNCHANGED <<sanVars, mfVars, upVars, cmdVars>>

MfIdle ==
    /\ mShape = "none" /\ mDoc = <<>> /\ mPc = "idle" /\ mData = <<>> /\ mOutcome = "none"
    /\ mErrored = FALSE /\ mLoaded = FALSE /\ mFired = 0 /\ mGen = 0 /\ mDataGen = 0

\* downloadAssignment after its await of withProgress(downloadAndUnzip): it has
\* no try / catch, so a rejection leaves the command as a rejected promise;
\* otherwise it returns, or opens the downloaded folder
DownloadAssignmentSettles ==
    /\ pc = "done"
    /\ cmd = "awaiting"
    /\ cmd' = CASE result.kind = "rejected" -> "unhandled"
                [] result.kind = "resolved" -> "opened"
                [] OTHER -> "returned"
    /\ UNCHANGED <<rev, label, stored, archive, fs, fs0, pc, dest, tempDir, result, choice, fetched>>
    /\ UNCHANGED <<sanVars, mfVars, upVars, cmdVars>>

Tokens == {"${user}", "${pw}"}
NoAssignment == [name |-> <<>>, excludes |-> <<>>,
                 transport |-> [uri |-> "", params |-> <<>>, fileParams |-> <<>>]]
NoItem == [group |-> <<>>, assignment |-> NoAssignment]

UpIdle ==
    /\ uDoc = <<>> /\ uItem = NoItem /\ uPc = "idle" /\ uRun = 0
    /\ uGlobal = [t \in Tokens |-> ""] /\ uVars = [t \in Tokens |-> ""]
    /\ uGlobal0 = [t \in Tokens |-> ""] /\ uLookup = "none"
    /\ uPrompts = <<>> /\ uAssignment = NoAssignment /\ uI = 0 /\ uDir = "none"
    /\ uBody = <<>> /\ uIgnore = <<>> /\ uArchive = {} /\ uPost = "none" /\ uMsgs = {}
    /\ uUnhandled = FALSE

CdIdle ==
    /\ cdPc = "idle" /\ cdDir = FALSE /\ cdRequest = "none" /\ cdLeft = 0 /\ cdStream = "none"
    /\ cdToken = FALSE /\ cdListener = "none" /\ cdUnlinks = {} /\ cdFile = "none"
    /\ cdPromise = "pending" /\ cdMsgs = {}

Invocations == {1, 2}

CcIdle ==
    /\ ccFs = {} /\ ccArchive = {} /\ ccPc = [i \in Invocations |-> "idle"]
    /\ ccResult = [i \in Invocations |-> Pending] /\ ccTouched = {}

MaxRefreshes == 4

RfIdle ==
    /\ rfStarted = 0 /\ rfPc = [i \in 1..MaxRefreshes |-> "idle"] /\ rfData = 0
    /\ rfLoaded = FALSE /\ rfErrored = FALSE /\ rfFired = 0

CjIdle ==
    /\ cjRev = "none" /\ cjStored = NoPath /\ cjStored0 = NoPath /\ cjFs = {} /\ cjFs0 = {}
    /\ cjPc = "idle" /\ cjBase = NoPath /\ cjName = <<>> /\ cjProject = NoPath
    /\ cjChoice = "none" /\ cjN = 0 /\ cjCancelled = FALSE /\ cjCreated = FALSE

CmdIdle == CdIdle /\ CcIdle /\ RfIdle /\ CjIdle

Init == DlInit /\ SanIdle /\ MfIdle /\ UpIdle /\ CmdIdle
Next ==
    \/ DlStart
    \/ DlPromptAnswer
    \/ DlFetch
    \/ DlExtractFinish
    \/ DlExtractError
    \/ DlFinishOk
    \/ DlFinishMoveFails
    \/ DownloadAssignmentSettles

Spec == Init /\ [][Next]_vars

SanNext == ApplySanitize \/ ApplySanitizeAgain
InitSanitize == SanInit /\ DlIdle /\ MfIdle /\ UpIdle /\ CmdIdle
SpecSanitize == InitSanitize /\ [][SanNext]_vars

(***************************************************************************)
(* Manifests and the tree providers.  Three shapes:                        *)
(*   "json"       flat JSON array, AssignmentProvider                      *)
(*   "xmlElement" snarf_site XML with categories, AssignmentProvider       *)
(*   "xml2js"     snarf_site XML read with xml2js, AssignmentProvider      *)
(*   "sections"   flat JSON array under a Download section (fetchJson)     *)
(*   "xmlAttr"    submission-targets XML, UploadDataProvider               *)
(* A document is what the manifest URL serves; the XML parsers deliver an  *)
(* element's children of one tag as an array, or nothing when there are    *)
(* none.                                                                   *)
(***************************************************************************)
Shapes == {"json", "xmlElement", "xml2js", "sections", "xmlAttr"}

\* bounds on the documents: entries of a flat manifest, groups of a nested one
MaxEntries == 2
MaxGroups  == 2

SeqsUpTo(S, n) == UNION {[1..k -> S] : k \in 0..n}

LHW1 == <<"H","W","1">>
La   == <<"a">>
LB   == <<"B">>

\* the labels the providers give the site root, and a site's name
ErrorLabel == <<"E", "r", "r", "o", "r">>
UnnamedSite == <<"U", "n", "n", "a", "m", "e", "d", " ", "S", "i", "t", "e">>
AvailableAssignments == <<"A", "v", "a", "i", "l", "a", "b", "l", "e", " ", "A", "s", "s", "i", "g", "n", "m", "e", "n", "t", "s">>
FailedToLoad == <<"F", "a", "i", "l", "e", "d", " ", "t", "o", " ", "l", "o", "a", "d", " ", "a", "s", "s", "i", "g", "n", "m", "e", "n", "t", "s">>
NoAssignments == <<"N", "o", " ", "a", "s", "s", "i", "g", "n", "m", "e", "n", "t", "s", " ", "a", "v", "a", "i", "l", "a", "b", "l", "e">>
ConfigureUrl == <<"C", "o", "n", "f", "i", "g", "u", "r", "e", " ", "D", "o", "w", "n", "l", "o", "a", "d", " ", "U", "R", "L">>
SiteName == <<"I", "T", "S", "C">>

\* ---- String.prototype.localeCompare on labels: letters compare without case
\* first, digits before letters, and lower case before upper case on a tie
Lower(c) == CASE c = "A" -> "a" [] c = "B" -> "b" [] c = "H" -> "h" [] c = "W" -> "w" [] OTHER -> c
LetterOrder == <<"1", "2", "a", "b", "h", "w">>
Primary(c) == CHOOSE i \in 1..Len(LetterOrder) : LetterOrder[i] = Lower(c)

RECURSIVE ComparePrimary(_, _)
ComparePrimary(x, y) ==
    IF x = <<>> /\ y = <<>> THEN "eq"
    ELSE IF x = <<>> THEN "lt"
    ELSE IF y = <<>> THEN "gt"
    ELSE IF Primary(Head(x)) < Primary(Head(y)) THEN "lt"
    ELSE IF Primary(Head(x)) > Primary(Head(y)) THEN "gt"
    ELSE ComparePrimary(Tail(x), Tail(y))

RECURSIVE CompareCase(_, _)
CompareCase(x, y) ==
    IF x = <<>> \/ y = <<>> THEN "eq"
    ELSE IF Head(x) = Head(y) THEN CompareCase(Tail(x), Tail(y))
    ELSE IF Head(x) = Lower(Head(x)) THEN "lt" ELSE "gt"

LocaleCompare(x, y) ==
    IF ComparePrimary(x, y) # "eq" THEN ComparePrimary(x, y) ELSE CompareCase(x, y)

\* ---- items.sort((a, b) => a.label.localeCompare(b.label)): a stable sort
RECURSIVE InsertByLabel(_, _)
InsertByLabel(x, sorted) ==
    IF sorted = <<>> THEN <<x>>
    ELSE IF LocaleCompare(x.label, Head(sorted).label) = "lt" THEN <<x>> \o sorted
    ELSE <<Head(sorted)>> \o InsertByLabel(x, Tail(sorted))

RECURSIVE SortByLabel(_)
SortByLabel(items) ==
    IF items = <<>> THEN <<>>
    ELSE InsertByLabel(items[Len(items)], SortByLabel(SubSeq(items, 1, Len(items) - 1)))

\* ---- tree items
NoData == [has |-> FALSE, description |-> "", url |-> "", category |-> <<>>, version |-> "",
           excludes |-> <<>>, params |-> <<>>, fileParams |-> <<>>]
LeafData(d, u, c, v, ex, ps, fps) ==
    [has |-> TRUE, description |-> d, url |-> u, category |-> c, version |-> v,
     excludes |-> ex, params |-> ps, fileParams |-> fps]

\* new AssignmentTreeItem(label, state, icon, children, itemData) /
\* new AsyncItem({label, children, item}): hasChildren tells an array from undefined
\* shown is TreeItem.description, data the itemData / item the node carries
Item(lbl, state, hasChildren, children, shown, data) ==
    [label |-> lbl, state |-> state, hasChildren |-> hasChildren, children |-> children,
     shown |-> shown, data |-> data]

Ok(v)      == [ok |-> TRUE, val |-> v, err |-> ""]
Throw(err) == [ok |-> FALSE, val |-> <<>>, err |-> err]

\* ---- the documents
JsonEntries == { [label |-> LHW1, description |-> "First homework", url |-> "https://x/hw1.zip"],
                 [label |-> La,   description |-> "",               url |-> "https://x/a.zip"],
                 [label |-> LB,   description |-> "d",              url |-> "https://x/b.zip"] }

Packages == { [category |-> LB, name |-> La,   version |-> "1", description |-> "d",  url |-> "https://x/a.zip"],
              [category |-> LB, name |-> LB,   version |-> "2", description |-> "",   url |-> "https://x/b.zip"],
              [category |-> La, name |-> LHW1, version |-> "1", description |-> "First homework", url |-> "https://x/hw1.zip"] }

Param(n, v) == [name |-> n, value |-> v]
TransportFull     == [uri |-> "https://s/submit", params |-> <<Param("u", "${user}")>>, fileParams |-> <<Param("file1", "${user}.zip")>>]
TransportNoFile   == [uri |-> "https://s/submit", params |-> <<Param("u", "${user}")>>, fileParams |-> <<>>]
TransportNoParam  == [uri |-> "https://s/submit", params |-> <<>>, fileParams |-> <<Param("file1", "${user}.zip")>>]
TransportBare     == [uri |-> "https://s/submit", params |-> <<>>, fileParams |-> <<>>]

Assignment(n, ex, ts) == [name |-> n, excludes |-> ex, transports |-> ts]
AssignmentSeqs ==
    { <<>>,
      <<Assignment(La, <<"*.o">>, <<TransportFull>>)>>,
      <<Assignment(LB, <<>>, <<TransportFull>>), Assignment(La, <<"*.o">>, <<TransportFull>>)>>,
      <<Assignment(La, <<>>, <<TransportBare>>)>>,
      <<Assignment(LB, <<>>, <<TransportFull>>), Assignment(La, <<>>, <<TransportBare>>)>>,
      <<Assignment(La, <<>>, <<TransportNoFile>>)>>,
      <<Assignment(La, <<>>, <<TransportNoParam>>)>>,
      <<Assignment(La, <<>>, <<>>)>> }
GroupNames == {LHW1, LB}
Groups == {[name |-> n, assignments |-> as] : n \in GroupNames, as \in AssignmentSeqs}

\* a document: whether a URL is configured, how the request ends, and the body
Doc(configured, response, kind, name, excludes, items) ==
    [configured |-> configured, response |-> response, kind |-> kind,
     name |-> name, excludes |-> excludes, items |-> items]

\* no URL configured; the request fails; a non-success status with some page;
\* a body of the right syntax but another structure; a body that is not of the
\* syntax at all
NotConfigured == Doc(FALSE, "none", "none", <<>>, <<>>, <<>>)
Unreachable   == Doc(TRUE, "throws", "none", <<>>, <<>>, <<>>)
ErrorPage     == Doc(TRUE, "notOk", "other", <<>>, <<>>, <<>>)
OtherBody     == Doc(TRUE, "ok", "other", <<>>, <<>>, <<>>)
Garbage       == Doc(TRUE, "ok", "garbage", <<>>, <<>>, <<>>)

Manifests(shape) ==
    CASE shape \in {"json", "sections"} ->
            {Doc(TRUE, "ok", "array", <<>>, <<>>, es) : es \in SeqsUpTo(JsonEntries, MaxEntries)}
      [] shape \in {"xmlElement", "xml2js"} ->
            {Doc(TRUE, "ok", "site", SiteName, <<>>, ps) : ps \in SeqsUpTo(Packages, MaxEntries)}
      [] shape = "xmlAttr" ->
            {Doc(TRUE, "ok", "targets", <<>>, ex, gs) :
                ex \in {<<>>, <<"*.class">>}, gs \in SeqsUpTo(Groups, MaxGroups)}

\* a non-success response can carry any body, a manifest included
Docs(shape) ==
    {NotConfigured, Unreachable, ErrorPage, OtherBody, Garbage}
    \cup Manifests(shape)
    \cup {[d EXCEPT !.response = "notOk"] : d \in Manifests(shape)}

\* ---- flat JSON manifest (AssignmentProvider)
JsonFetchSite(doc) ==
    IF doc.response = "throws" THEN Throw("FetchError")
    ELSE IF doc.response = "notOk" THEN Ok([label |-> ErrorLabel, packages |-> <<>>])
    ELSE IF doc.kind = "garbage" THEN Throw("SyntaxError")
    ELSE IF doc.kind # "array" THEN Ok([label |-> ErrorLabel, packages |-> <<>>])
    ELSE Ok([label |-> AvailableAssignments, packages |-> doc.items])

JsonLeaf(pkg) ==
    Item(pkg.label, "None", FALSE, <<>>, pkg.description,
         LeafData(pkg.description, pkg.url, <<>>, "", <<>>, <<>>, <<>>))

JsonFetchData(doc) ==
    IF ~doc.configured THEN Ok(<<>>)
    ELSE LET site == JsonFetchSite(doc) IN
         IF ~site.ok THEN site
         ELSE LET assignmentItems == SortByLabel([i \in 1..Len(site.val.packages) |-> JsonLeaf(site.val.packages[i])])
              IN Ok(<<Item(site.val.label, "Expanded", TRUE, assignmentItems, "", NoData)>>)

\* ---- snarf_site XML manifest (AssignmentProvider): one package comes out of
\* the parser as an object, several as an array, none as nothing
ParsedPackage(ps) ==
    IF Len(ps) = 0 THEN [defined |-> FALSE, isArray |-> FALSE, val |-> <<>>]
    ELSE IF Len(ps) = 1 THEN [defined |-> TRUE, isArray |-> FALSE, val |-> <<ps[1]>>]
    ELSE [defined |-> TRUE, isArray |-> TRUE, val |-> ps]

XmlFetchSite(doc) ==
    IF doc.response = "throws" THEN Throw("FetchError")
    ELSE IF doc.response = "notOk" THEN Ok([label |-> ErrorLabel, packages |-> <<>>])
    ELSE IF doc.kind # "site" THEN Ok([label |-> UnnamedSite, packages |-> <<>>])
    ELSE LET package == ParsedPackage(doc.items) IN
         Ok([label |-> doc.name,
             packages |-> IF package.defined THEN package.val ELSE <<>>])

XmlLeaf(pkg) ==
    Item(pkg.name, "None", FALSE, <<>>, pkg.version,
         LeafData(pkg.description, pkg.url, pkg.category, pkg.version, <<>>, <<>>, <<>>))

\* the categories in the order packages.reduce first meets them
RECURSIVE CategoryOrder(_)
CategoryOrder(packages) ==
    IF packages = <<>> THEN <<>>
    ELSE LET before == CategoryOrder(SubSeq(packages, 1, Len(packages) - 1))
             c == packages[Len(packages)].category
         IN IF \E i \in 1..Len(before) : before[i] = c THEN before ELSE Append(before, c)

CategoryItem(c, packages) ==
    LET mine == SelectSeq(packages, LAMBDA pkg : pkg.category = c)
        children == SortByLabel([i \in 1..Len(mine) |-> XmlLeaf(mine[i])])
    IN Item(c, "Collapsed", TRUE, children, "", NoData)

XmlFetchData(doc) ==
    IF ~doc.configured THEN Ok(<<>>)
    ELSE LET site == XmlFetchSite(doc) IN
         IF ~site.ok THEN site
         ELSE LET cats == CategoryOrder(site.val.packages)
                  categoryItems == SortByLabel([i \in 1..Len(cats) |-> CategoryItem(cats[i], site.val.packages)])
              IN Ok(<<Item(site.val.label, "Expanded", TRUE, categoryItems, "", NoData)>>)

\* ---- snarf_site XML manifest read with xml2js (AssignmentProvider): every
\* child tag is an array, a missing one is undefined, and whatever the try
\* block throws ends in the 'Error' site
Xml2jsFetchSite(doc) ==
    IF doc.response = "throws" THEN Throw("FetchError")
    ELSE IF doc.response = "notOk" THEN Ok([label |-> ErrorLabel, packages |-> <<>>])
    ELSE IF doc.kind # "site" THEN Ok([label |-> ErrorLabel, packages |-> <<>>])
    ELSE IF doc.items = <<>> THEN Ok([label |-> ErrorLabel, packages |-> <<>>])
    ELSE Ok([label |-> doc.name,
             packages |-> [i \in 1..Len(doc.items) |->
                             [label |-> doc.items[i].name,
                              description |-> doc.items[i].description,
                              url |-> doc.items[i].url]]])

Xml2jsLeaf(pkg) ==
    Item(pkg.label, "None", FALSE, <<>>, pkg.description,
         LeafData(pkg.description, pkg.url, <<>>, "", <<>>, <<>>, <<>>))

Xml2jsFetchData(doc) ==
    IF ~doc.configured THEN Ok(<<>>)
    ELSE LET site == Xml2jsFetchSite(doc) IN
         IF ~site.ok THEN site
         ELSE LET assignmentItems == SortByLabel([i \in 1..Len(site.val.packages) |-> Xml2jsLeaf(site.val.packages[i])])
              IN Ok(<<Item(site.val.label, "Expanded", TRUE, assignmentItems, "", NoData)>>)

\* ---- flat JSON manifest under the Download section (fetchJson and
\* getChildren(downloadSection)): every failure ends in one error item
FetchJson(doc) ==
    IF doc.response = "throws" THEN Throw("Error")
    ELSE IF doc.response = "notOk" THEN Throw("Error")
    ELSE IF doc.kind = "garbage" THEN Throw("Error")
    ELSE Ok(doc)

SectionLeaf(a) ==
    Item(a.label, "None", FALSE, <<>>, a.description,
         LeafData(a.description, a.url, <<>>, "", <<>>, <<>>, <<>>))

Placeholder(lbl) == Item(lbl, "None", FALSE, <<>>, "", NoData)

SectionGetChildren(doc) ==
    IF ~doc.configured THEN Ok(<<Placeholder(ConfigureUrl)>>)
    ELSE LET assignments == FetchJson(doc) IN
         IF ~assignments.ok THEN Ok(<<Placeholder(FailedToLoad)>>)
         ELSE IF assignments.val.kind # "array" THEN Ok(<<Placeholder(FailedToLoad)>>)
         ELSE IF assignments.val.items = <<>> THEN Ok(<<Placeholder(NoAssignments)>>)
         ELSE Ok([i \in 1..Len(assignments.val.items) |-> SectionLeaf(assignments.val.items[i])])

\* ---- submission-targets XML manifest (UploadDataProvider): value[tag] is an
\* array when the element has children of that tag and undefined otherwise, so
\* value[tag].map and value[tag][0] throw a TypeError on a missing child
parseTransportParam(value) == [name |-> value.name, value |-> value.value]

parseTransport(value) ==
    IF value.params = <<>> THEN Throw("TypeError")
    ELSE IF value.fileParams = <<>> THEN Throw("TypeError")
    ELSE Ok([uri |-> value.uri,
             params |-> [i \in 1..Len(value.params) |-> parseTransportParam(value.params[i])],
             fileParams |-> [i \in 1..Len(value.fileParams) |-> parseTransportParam(value.fileParams[i])]])

parseAssignment(value) ==
    IF value.transports = <<>> THEN Throw("TypeError")
    ELSE LET t == parseTransport(value.transports[1]) IN
         IF ~t.ok THEN t
         ELSE Ok([name |-> value.name, excludes |-> value.excludes, transport |-> t.val])

parseAssignmentGroup(value) ==
    IF value.assignments = <<>> THEN Throw("TypeError")
    ELSE IF \E i \in 1..Len(value.assignments) : ~parseAssignment(value.assignments[i]).ok
         THEN Throw("TypeError")
    ELSE Ok([name |-> value.name,
             assignments |-> [i \in 1..Len(value.assignments) |-> parseAssignment(value.assignments[i]).val]])

parseSubmissionRoot(doc) ==
    IF doc.kind # "targets" THEN Throw("TypeError")
    ELSE IF doc.excludes = <<>> THEN Throw("TypeError")
    ELSE IF doc.items = <<>> THEN Throw("TypeError")
    ELSE IF \E i \in 1..Len(doc.items) : ~parseAssignmentGroup(doc.items[i]).ok
         THEN Throw("TypeError")
    ELSE Ok([excludes |-> doc.excludes,
             groups |-> [i \in 1..Len(doc.items) |-> parseAssignmentGroup(doc.items[i]).val]])

\* UploadDataProvider.fetchSite: the response status is not looked at
UploadFetchSite(doc) ==
    IF doc.response = "throws" THEN Throw("FetchError") ELSE parseSubmissionRoot(doc)

\* new AsyncItem({label, children, ...}): Collapsed when children is given
AsyncItem(lbl, hasChildren, children, data) ==
    Item(lbl, IF hasChildren THEN "Collapsed" ELSE "None", hasChildren, children, "", data)

UploadLeaf(root, assignment) ==
    AsyncItem(assignment.name, FALSE, <<>>,
              LeafData("", assignment.transport.uri, <<>>, "", root.excludes \o assignment.excludes,
                       assignment.transport.params, assignment.transport.fileParams))

UploadGroupItem(root, group) ==
    AsyncItem(group.name, TRUE,
              [i \in 1..Len(group.assignments) |-> UploadLeaf(root, group.assignments[i])], NoData)

\* returns nothing when no upload URL is configured; refresh turns that into []
UploadFetchData(doc) ==
    IF ~doc.configured THEN Ok(<<>>)
    ELSE LET root == UploadFetchSite(doc) IN
         IF ~root.ok THEN root
         ELSE Ok([i \in 1..Len(root.val.groups) |-> UploadGroupItem(root.val, root.val.groups[i])])

FetchData(shape, doc) ==
    CASE shape = "json" -> JsonFetchData(doc)
      [] shape = "xmlElement" -> XmlFetchData(doc)
      [] shape = "xml2js" -> Xml2jsFetchData(doc)
      [] shape = "sections" -> SectionGetChildren(doc)
      [] shape = "xmlAttr" -> UploadFetchData(doc)

\* bound on the number of fetches in one session
MaxFetches == 2

MfInit ==
    /\ mShape \in Shapes
    /\ mDoc \in Docs(mShape)
    /\ mPc = "start"
    /\ mData = <<>>
    /\ mOutcome = "none"
    /\ mErrored = FALSE
    /\ mLoaded = FALSE
    /\ mFired = 0
    /\ mGen = 1
    /\ mDataGen = 0

\* AssignmentProvider.getChildren(undefined): the view asks for the roots and
\* gets the result of a new fetch; mData is the list returned (none when the
\* promise rejects)
GetChildrenRoot ==
    /\ mShape \in {"json", "xmlElement", "xml2js", "sections"}
    /\ mPc = "start"
    /\ LET r == FetchData(mShape, mDoc) IN
         /\ mData' = IF r.ok THEN r.val ELSE <<>>
         /\ mDataGen' = IF r.ok THEN mGen ELSE 0
         /\ mOutcome' = IF r.ok THEN "ok" ELSE r.err
    /\ mPc' = "done"
    /\ UNCHANGED <<mShape, mDoc, mErrored, mLoaded, mFired, mGen>>
    /\ UNCHANGED <<sanVars, dlVars, upVars, cmdVars>>

\* AsyncTreeDataProvider.refresh up to the await: beforeLoad
RefreshBegin ==
    /\ mShape = "xmlAttr"
    /\ mPc = "start"
    /\ mErrored' = FALSE
    /\ mLoaded' = FALSE
    /\ mPc' = "loading"
    /\ UNCHANGED <<mShape, mDoc, mData, mOutcome, mFired, mGen, mDataGen>>
    /\ UNCHANGED <<sanVars, dlVars, upVars, cmdVars>>

\* AsyncTreeDataProvider.refresh after the await: try / catch / finally
RefreshSettle ==
    /\ mShape = "xmlAttr"
    /\ mPc = "loading"
    /\ LET r == FetchData(mShape, mDoc) IN
         /\ mData' = IF r.ok THEN r.val ELSE mData
         /\ mDataGen' = IF r.ok THEN mGen ELSE mDataGen
         /\ mLoaded' = IF r.ok THEN TRUE ELSE mLoaded
         /\ mErrored' = ~r.ok
         /\ mOutcome' = IF r.ok THEN "ok" ELSE r.err
    /\ mFired' = mFired + 1
    /\ mPc' = "done"
    /\ UNCHANGED <<mShape, mDoc, mGen>>
    /\ UNCHANGED <<sanVars, dlVars, upVars, cmdVars>>

\* what the manifest URL can serve at the next fetch
LaterDocs(doc) == {doc, Unreachable, Garbage}

\* the refresh command: AssignmentProvider.refresh only fires the event and the
\* view asks for the roots again; AsyncTreeDataProvider.refresh fetches again
RefreshCommand ==
    /\ mPc = "done"
    /\ mGen < MaxFetches
    /\ mDoc' \in LaterDocs(mDoc)
    /\ mGen' = mGen + 1
    /\ mFired' = IF mShape = "xmlAttr" THEN mFired ELSE mFired + 1
    /\ mPc' = "start"
    /\ UNCHANGED <<mShape, mData, mDataGen, mOutcome, mErrored, mLoaded>>
    /\ UNCHANGED <<sanVars, dlVars, upVars, cmdVars>>

MfNext == GetChildrenRoot \/ RefreshBegin \/ RefreshSettle \/ RefreshCommand
InitManifest == MfInit /\ DlIdle /\ SanIdle /\ UpIdle /\ CmdIdle
SpecManifest == InitManifest /\ [][MfNext]_vars

(***************************************************************************)
(* uploadItem: the submit command.  A value of a transport param is a      *)
(* sequence of pieces, a piece being a placeholder token or literal text;  *)
(* an exclude pattern "*.ext" is the pair <<"*", ".ext">>.                  *)
(***************************************************************************)
\* bound on the invocations of uploadItem in one session
MaxRuns == 2

Star(ext) == <<"*", ext>>

\* the patterns uploadItem always adds to the ignore list
BuiltInPatterns ==
    <<Star(".gdoc"), Star(".gslides"), Star(".gsheet"), Star(".gdraw"), Star(".gtable"), Star(".gform")>>

\* PROMPT_ON.hasOwnProperty(param.value)
PromptOn(value) == Len(value) = 1 /\ value[1] \in Tokens

\* value.replace(k, v): the first occurrence only
RECURSIVE ReplaceFirst(_, _, _)
ReplaceFirst(value, k, v) ==
    IF value = <<>> THEN <<>>
    ELSE IF Head(value) = k THEN <<v>> \o Tail(value)
    ELSE <<Head(value)>> \o ReplaceFirst(Tail(value), k, v)

\* formatVars: one replace per entry of vars
FormatVars(value, varsMap) ==
    LET afterUser == IF varsMap["${user}"] # "" THEN ReplaceFirst(value, "${user}", varsMap["${user}"]) ELSE value
    IN IF varsMap["${pw}"] # "" THEN ReplaceFirst(afterUser, "${pw}", varsMap["${pw}"]) ELSE afterUser

\* ---- the folder the user can pick: the project, or its src directory
PathOf(dir, base, ext, isDir) == [dir |-> dir, base |-> base, ext |-> ext, isDir |-> isDir]
SrcFiles == { PathOf(<<>>, "Main", ".java", FALSE), PathOf(<<>>, "notes", ".gdoc", FALSE),
              PathOf(<<>>, "Main", ".class", FALSE), PathOf(<<>>, "scratch", ".tmp", FALSE) }
Folders == {"project", "src"}
FolderTree(folder) ==
    IF folder = "src" THEN SrcFiles
    ELSE {PathOf(<<>>, "src", "", TRUE), PathOf(<<>>, "plan", ".gdoc", FALSE)}
         \cup {[f EXCEPT !.dir = <<"src">>] : f \in SrcFiles}

\* a pattern "*.ext" matches a path of one segment ending in .ext: * does not
\* cross a separator
GlobMatches(pattern, f) == f.dir = <<>> /\ f.ext = pattern[2]

\* glob("**/*", { cwd: dir, ignore }): every file and directory below dir that
\* no ignore pattern matches
Glob(folder, ignore) ==
    {f \in FolderTree(folder) : ~\E k \in 1..Len(ignore) : GlobMatches(ignore[k], f)}

\* ---- the manifests the session's tree is loaded from
SubmitParam(n, v) == [name |-> n, value |-> v]
SubmitTransports ==
    { [uri |-> "https://s/submit",
       params |-> <<SubmitParam("u", <<"${user}">>), SubmitParam("p", <<"${pw}">>)>>,
       fileParams |-> <<SubmitParam("file1", <<"${user}", ".zip">>)>>],
      [uri |-> "https://s/submit",
       params |-> <<SubmitParam("u", <<"${user}">>), SubmitParam("who", <<"${user}">>)>>,
       fileParams |-> <<SubmitParam("file1", <<"hw.zip">>)>>],
      [uri |-> "https://s/submit",
       params |-> <<SubmitParam("course", <<"ITSC2214">>)>>,
       fileParams |-> <<SubmitParam("file1", <<"hw.zip">>)>>],
      \* a token twice in one value
      [uri |-> "https://s/submit",
       params |-> <<SubmitParam("u", <<"${user}">>), SubmitParam("tag", <<"${user}", "-", "${user}">>)>>,
       fileParams |-> <<SubmitParam("file1", <<"hw.zip">>)>>],
      \* a token inside a value that comes before the param that asks for it
      [uri |-> "https://s/submit",
       params |-> <<SubmitParam("who", <<"id-", "${user}">>), SubmitParam("u", <<"${user}">>)>>,
       fileParams |-> <<SubmitParam("file1", <<"hw.zip">>)>>] }

SubmitDocs ==
    { Doc(TRUE, "ok", "targets", <<>>, <<Star(".class")>>,
          <<[name |-> LHW1, excludes |-> gex,
             assignments |-> <<Assignment(La, aex, <<t>>)>>]>>) :
        gex \in {<<>>, <<Star(".tmp")>>}, aex \in {<<>>, <<Star(".class")>>}, t \in SubmitTransports }

\* item.item of a leaf of the upload tree
ItemAssignment(leaf) ==
    [name |-> leaf.label, excludes |-> leaf.data.excludes,
     transport |-> [uri |-> leaf.data.url, params |-> leaf.data.params, fileParams |-> leaf.data.fileParams]]

ItemsOf(doc) ==
    LET groups == UploadFetchData(doc).val
    IN {[group |-> groups[g].label, assignment |-> ItemAssignment(groups[g].children[a])] :
           g \in 1..Len(groups), a \in 1..1}

\* groups?.find(label = group name)?.children?.find(label = assignment name)?.item
Lookup(groups, item) ==
    LET gs == SelectSeq(groups, LAMBDA x : x.label = item.group)
    IN IF gs = <<>> THEN <<>>
       ELSE SelectSeq(gs[1].children, LAMBDA x : x.label = item.assignment.name)

\* const { assignment } = (lookup ?? item): the fallback is the tree item, which
\* has no assignment property, so the first use of assignment throws
Resolve(groups, item) ==
    LET cs == Lookup(groups, item)
    IN IF cs = <<>> THEN Throw("TypeError") ELSE Ok(ItemAssignment(cs[1]))

\* the manifest with its first group under another name
Renamed(doc) == [doc EXCEPT !.items[1].name = LB]

Info(text)    == [level |-> "information", text |-> text]
Warning(text) == [level |-> "warning", text |-> text]
Error(text)   == [level |-> "error", text |-> text]

UpInit ==
    /\ uDoc \in SubmitDocs
    /\ uItem \in ItemsOf(uDoc)
    /\ uPc = "start"
    /\ uRun = 1
    /\ uGlobal = [t \in Tokens |-> ""]
    /\ uGlobal0 = uGlobal
    /\ uLookup = "none"
    /\ uVars = [t \in Tokens |-> ""]
    /\ uPrompts = <<>>
    /\ uAssignment = NoAssignment
    /\ uI = 0
    /\ uDir = "none"
    /\ uBody = <<>>
    /\ uIgnore = <<>>
    /\ uArchive = {}
    /\ uPost = "none"
    /\ uMsgs = {}
    /\ uUnhandled = FALSE

\* the action up to the first dialog: re-fetch the tree and resolve the
\* assignment; a rejecting fetchData rejects the action, which withProgress
\* hands back as a promise nobody awaits
UploadStart ==
    /\ uPc = "start"
    /\ \E d \in {uDoc, Renamed(uDoc), Unreachable, NotConfigured} :
         LET groups == UploadFetchData(d)
             found  == IF groups.ok THEN Resolve(groups.val, uItem) ELSE groups
         IN
         /\ uLookup' = IF ~groups.ok THEN "rejected" ELSE IF found.ok THEN "found" ELSE "missing"
         /\ IF ~found.ok
            THEN /\ uUnhandled' = TRUE
                 /\ uPc' = "done"
                 /\ UNCHANGED <<uAssignment, uVars, uI>>
            ELSE /\ uAssignment' = found.val
                 /\ uVars' = [t \in Tokens |-> ""]
                 /\ uI' = 1
                 /\ uPc' = "dirs"
                 /\ UNCHANGED uUnhandled
    /\ UNCHANGED <<uGlobal0, uDoc, uItem, uRun, uGlobal, uPrompts, uDir, uBody, uIgnore, uArchive, uPost, uMsgs>>
    /\ UNCHANGED <<sanVars, dlVars, mfVars, cmdVars>>

\* showOpenDialog for the file param
UploadSelectDir ==
    /\ uPc = "dirs"
    /\ \E pick \in Folders \cup {"canceled"} :
         IF uAssignment.transport.fileParams # <<>> /\ pick = "canceled"
         THEN /\ uMsgs' = uMsgs \cup {Info("Operation canceled.")}
              /\ uPc' = "done"
              /\ UNCHANGED uDir
         ELSE /\ uDir' = IF uAssignment.transport.fileParams = <<>> THEN uDir ELSE pick
              /\ uPc' = IF uAssignment.transport.params = <<>> THEN "archive" ELSE "params"
              /\ UNCHANGED uMsgs
    /\ UNCHANGED <<uGlobal0, uLookup, uDoc, uItem, uRun, uGlobal, uVars, uPrompts, uAssignment, uI, uBody,
                   uIgnore, uArchive, uPost, uUnhandled>>
    /\ UNCHANGED <<sanVars, dlVars, mfVars, cmdVars>>

\* one round of the loop over transport.params
UploadParam ==
    /\ uPc = "params"
    /\ LET param == uAssignment.transport.params[uI]
           last == uI = Len(uAssignment.transport.params)
           t == param.value[1]
       IN IF PromptOn(param.value) /\ uVars[t] = ""
          THEN \E answer \in {"", "alice"} :
                 /\ uPrompts' = Append(uPrompts, [run |-> uRun, token |-> t, prefilled |-> uGlobal[t]])
                 /\ IF answer = ""
                    THEN /\ uMsgs' = uMsgs \cup {Info("Operation canceled.")}
                         /\ uPc' = "done"
                         /\ UNCHANGED <<uGlobal, uVars, uBody, uI>>
                    ELSE /\ uGlobal' = [uGlobal EXCEPT ![t] = answer]
                         /\ uVars' = [uVars EXCEPT ![t] = answer]
                         /\ uBody' = Append(uBody, [name |-> param.name, value |-> FormatVars(param.value, uVars')])
                         /\ uI' = uI + 1
                         /\ uPc' = IF last THEN "archive" ELSE "params"
                         /\ UNCHANGED uMsgs
          ELSE /\ uGlobal' = IF PromptOn(param.value) THEN [uGlobal EXCEPT ![t] = uVars[t]] ELSE uGlobal
               /\ uBody' = Append(uBody, [name |-> param.name, value |-> FormatVars(param.value, uVars)])
               /\ uI' = uI + 1
               /\ uPc' = IF last THEN "archive" ELSE "params"
               /\ UNCHANGED <<uVars, uPrompts, uMsgs>>
    /\ UNCHANGED <<uGlobal0, uLookup, uDoc, uItem, uRun, uAssignment, uDir, uIgnore, uArchive, uPost, uUnhandled>>
    /\ UNCHANGED <<sanVars, dlVars, mfVars, cmdVars>>

\* glob, archive and the file part of the form
UploadArchive ==
    /\ uPc = "archive"
    /\ uIgnore' = uAssignment.excludes \o BuiltInPatterns
    /\ uArchive' = IF uAssignment.transport.fileParams = <<>> THEN {} ELSE Glob(uDir, uIgnore')
    /\ uBody' = IF uAssignment.transport.fileParams = <<>> THEN uBody
                ELSE Append(uBody, [name |-> uAssignment.transport.fileParams[1].name,
                                    value |-> FormatVars(uAssignment.transport.fileParams[1].value, uVars)])
    /\ uPc' = "post"
    /\ UNCHANGED <<uGlobal0, uLookup, uDoc, uItem, uRun, uGlobal, uVars, uPrompts, uAssignment, uI, uDir, uPost, uMsgs,
                   uUnhandled>>
    /\ UNCHANGED <<sanVars, dlVars, mfVars, cmdVars>>

\* the POST and the search for <a ... href="..."> in the response
UploadPost ==
    /\ uPc = "post"
    /\ \E outcome \in {"throws", "anchor", "noAnchor"} :
         /\ uPost' = outcome
         /\ uUnhandled' = (uUnhandled \/ outcome = "throws")
         /\ uMsgs' = CASE outcome = "throws" -> uMsgs
                       [] outcome = "anchor" ->
                            uMsgs \cup {Info("WebCAT submission successful. You can view the results in your browser.")}
                       [] outcome = "noAnchor" ->
                            uMsgs \cup {Error("Could not find submission results URL. Please check the WebCAT website directly.")}
    /\ uPc' = "done"
    /\ UNCHANGED <<uGlobal0, uLookup, uDoc, uItem, uRun, uGlobal, uVars, uPrompts, uAssignment, uI, uDir, uBody, uIgnore, uArchive>>
    /\ UNCHANGED <<sanVars, dlVars, mfVars, cmdVars>>

\* the command is invoked again on the same leaf, later in the session
UploadAgain ==
    /\ uPc = "done"
    /\ uRun < MaxRuns
    /\ uRun' = uRun + 1
    /\ uPc' = "start"
    /\ uAssignment' = NoAssignment
    /\ uI' = 0
    /\ uDir' = "none"
    /\ uBody' = <<>>
    /\ uIgnore' = <<>>
    /\ uArchive' = {}
    /\ uPost' = "none"
    /\ uMsgs' = {}
    /\ uUnhandled' = FALSE
    /\ uGlobal0' = uGlobal
    /\ uLookup' = "none"
    /\ UNCHANGED <<uDoc, uItem, uGlobal, uVars, uPrompts>>
    /\ UNCHANGED <<sanVars, dlVars, mfVars, cmdVars>>

UpNext == UploadStart \/ UploadSelectDir \/ UploadParam \/ UploadArchive \/ UploadPost \/ UploadAgain
InitSubmit == UpInit /\ DlIdle /\ SanIdle /\ MfIdle /\ CmdIdle
SpecSubmit == InitSubmit /\ [][UpNext]_vars

(***************************************************************************)
(* Properties of downloadAndUnzip                                          *)
(***************************************************************************)
Done     == pc = "done"
Success  == pc = "done" /\ result.kind = "resolved"

\* C1: when the destination existed before the call and the overwrite prompt is
\* answered with anything but 'Yes', the call returns undefined, issues no
\* download, and leaves the whole file system as it was before the call.
DeclinedOverwriteChangesNothing ==
    (Done /\ choice \notin {"none", "Yes"} /\ Exists(fs0, dest))
        => (result = ReturnedUndef /\ ~fetched /\ fs = fs0)

DeclinedOverwriteReached ==
    /\ Done /\ rev = "vscodeFs" /\ choice = "No"
    /\ Exists(fs0, Append(dest, NOld))
    /\ result = ReturnedUndef

\* the tree a run that succeeds puts at the destination: the archive after the
\* revision's own normalisation
Normalised(r, a) ==
    IF ~UsesTemp(r) THEN a
    ELSE LET t  == <<NTmp>>
             f1 == StripMetadata(r, ExtractInto({Dir(t)}, t, a), t)
         IN  Subtree(f1, ProjectRoot(f1, t))

DestState(f, d) == IF Exists(f, d) THEN [exists |-> TRUE, tree |-> Subtree(f, d)]
                                   ELSE [exists |-> FALSE, tree |-> {}]

\* C2: whatever the outcome, the destination afterwards holds the complete
\* normalised archive tree or is in the state it had before the call.
DestinationAllOrNothing ==
    (Done /\ dest # NoPath)
        => \/ Exists(fs, dest) /\ Normalised(rev, archive) \subseteq Subtree(fs, dest)
           \/ DestState(fs, dest) = DestState(fs0, dest)

\* C3: once the operation has finished, a temp directory it created is gone.
ScratchRemovedWhenDone ==
    (Done /\ tempDir # NoPath) => ~Exists(fs, tempDir)

IsMetadataName(n) == n = NMacosx \/ StartsWithDotUnderscore(n)
TopDirs(a)        == {n.path[1] : n \in {m \in a : Len(m.path) = 1 /\ m.kind = "dir"}}
WithoutLib(tree)  == {n \in tree : n.path[1] # NLib}

\* C4: an archive whose only top-level entry is a directory Foo (not a metadata
\* name) ends with the children of Foo directly at the destination root: the
\* destination tree (the lib directory the jars are copied to aside) is the tree
\* below Foo, with no wrapper between.
WrapperCollapsed ==
    (Success /\ UsesTemp(rev) /\ Cardinality(TopNames(archive)) = 1
        /\ TopDirs(archive) = TopNames(archive)
        /\ \A n \in TopNames(archive) : ~IsMetadataName(n))
        => \A top \in TopNames(archive) :
              WithoutLib(Subtree(fs, dest)) = Subtree(archive, <<top>>)

WrapperCollapsedReached ==
    /\ Success /\ UsesTemp(rev) /\ archive = PieceFoo
    /\ Exists(fs, Append(dest, NA))
    /\ ~Exists(fs, dest \o <<NFoo, NFoo>>)

\* C5: after a success no top-level metadata entry of the archive (__MACOSX, or a
\* name starting with '._') is at the destination, and an archive whose other
\* top-level entries are one directory is collapsed.
MetadataStripped ==
    (Success /\ UsesTemp(rev))
        => /\ \A n \in TopNames(archive) : IsMetadataName(n) => ~Exists(fs, Append(dest, n))
           /\ LET real == {n \in TopNames(archive) : ~IsMetadataName(n)}
              IN  (Cardinality(real) = 1 /\ real \subseteq TopDirs(archive))
                    => \A top \in real : WithoutLib(Subtree(fs, dest)) = Subtree(archive, <<top>>)

\* the sanitiser as the claim words it, in one pass over the label: a character
\* outside [A-Za-z0-9- ] is dropped (and does not end a run of whitespace), the
\* first space of a run gives a hyphen, the other characters are kept
RECURSIVE SanitizeRef(_, _)
SanitizeRef(s, inRun) ==
    IF s = <<>> THEN <<>>
    ELSE IF Head(s) \notin Allowed THEN SanitizeRef(Tail(s), inRun)
    ELSE IF Head(s) = Space
         THEN (IF inRun THEN <<>> ELSE <<Hyphen>>) \o SanitizeRef(Tail(s), TRUE)
         ELSE <<Head(s)>> \o SanitizeRef(Tail(s), FALSE)

\* C6 as stated: the path a successful run returns is the workspace root joined
\* with the sanitised label.
ReturnsRootJoinedWithSanitized ==
    Success => result.path = Join(stored, SanitizeRef(label, FALSE))

\* C6 as amended: the path a successful run returns is the sanitised label joined
\* to the workspace root, or to its 'projects' subdirectory in the fsSync revision.
ReturnsTargetJoinedWithSanitized ==
    Success => result.path =
        Join(IF rev = "fsSync" THEN <<NBase, NProjects>> ELSE <<NBase>>, SanitizeRef(label, FALSE))

ReturnsHW1Reached ==
    /\ Success /\ rev = "vscodeFs" /\ label = <<"H","W","1">>
    /\ result.path = <<NBase, <<"H","W","1">>>>
    /\ IsDir(fs, result.path)

(***************************************************************************)
(* Properties of the sanitiser                                             *)
(***************************************************************************)
\* C7: sanitising is idempotent: sanitize(sanitize(s)) = sanitize(s).
SanitizeIdempotent == sStage = 2 => sOut2 = sOut

SanitizeIdempotentReached ==
    /\ sStage = 2 /\ sOut # sLabel /\ sOut # <<>>
    /\ \E i \in 1..Len(sLabel) : sLabel[i] \in Whitespace
    /\ \E i \in 1..Len(sLabel) : sLabel[i] \notin Allowed
(***************************************************************************)
(* Properties of the manifest parsers and tree providers                   *)
(***************************************************************************)
\* the nodes that stand for an entry (placeholder items carry none)
RECURSIVE Leaves(_)
Leaves(nodes) ==
    IF nodes = <<>> THEN <<>>
    ELSE (IF Head(nodes).hasChildren THEN Leaves(Head(nodes).children)
          ELSE IF Head(nodes).data.has THEN <<Head(nodes)>> ELSE <<>>)
         \o Leaves(Tail(nodes))

RECURSIVE Flatten(_)
Flatten(seqs) == IF seqs = <<>> THEN <<>> ELSE Head(seqs) \o Flatten(Tail(seqs))

Triple(l, d, u) == [label |-> l, description |-> d, url |-> u]

\* the entries of a document, as label / description / URL
Entries(shape, doc) ==
    CASE shape \in {"json", "sections"} ->
            [i \in 1..Len(doc.items) |-> Triple(doc.items[i].label, doc.items[i].description, doc.items[i].url)]
      [] shape \in {"xmlElement", "xml2js"} ->
            [i \in 1..Len(doc.items) |-> Triple(doc.items[i].name, doc.items[i].description, doc.items[i].url)]
      [] shape = "xmlAttr" ->
            LET as == Flatten([g \in 1..Len(doc.items) |-> doc.items[g].assignments])
            IN [i \in 1..Len(as) |->
                  Triple(as[i].name, "", IF as[i].transports = <<>> THEN "" ELSE as[i].transports[1].uri)]

LeafTriples(nodes) ==
    LET ls == Leaves(nodes)
    IN [i \in 1..Len(ls) |-> Triple(ls[i].label, ls[i].data.description, ls[i].data.url)]

Count(seq, x) == Cardinality({i \in 1..Len(seq) : seq[i] = x})
SameBag(a, b) ==
    /\ Len(a) = Len(b)
    /\ \A i \in 1..Len(a) : Count(a, a[i]) = Count(b, a[i])

Served(doc) == doc.configured /\ doc.response = "ok"

AllAssignments(doc) == Flatten([g \in 1..Len(doc.items) |-> doc.items[g].assignments])

\* every assignment has a transport with param and file-param children
TransportsComplete(doc) ==
    \A i \in 1..Len(AllAssignments(doc)) :
        LET a == AllAssignments(doc)[i] IN
        /\ a.transports # <<>>
        /\ a.transports[1].params # <<>>
        /\ a.transports[1].fileParams # <<>>

NoEmptyGroup(doc) == \A g \in 1..Len(doc.items) : doc.items[g].assignments # <<>>

\* a manifest of its shape with every entry complete; groups may be empty
WellFormed(shape, doc) ==
    /\ Served(doc)
    /\ CASE shape \in {"json", "sections"} -> doc.kind = "array"
         [] shape \in {"xmlElement", "xml2js"} -> doc.kind = "site"
         [] shape = "xmlAttr" -> doc.kind = "targets" /\ doc.excludes # <<>> /\ TransportsComplete(doc)

\* C8: for every well-formed manifest of each of the three shapes, once the
\* tree is loaded the number of leaf nodes equals the number of entries in the
\* document and the leaves carry the entries' label, description and URL
\* unchanged.
LeavesMatchEntries ==
    (mPc = "done" /\ WellFormed(mShape, mDoc))
        => SameBag(LeafTriples(mData), Entries(mShape, mDoc))

\* C9: a submission-targets manifest in which some transport has neither
\* param nor file-param children ends its load in a format error: the error is
\* classified as such and the load is flagged as failed.
BareTransportIsFormatError ==
    (/\ mPc = "done" /\ mShape = "xmlAttr" /\ Served(mDoc) /\ mDoc.kind = "targets"
     /\ \E i \in 1..Len(AllAssignments(mDoc)) :
            LET a == AllAssignments(mDoc)[i] IN
            a.transports # <<>> /\ a.transports[1].params = <<>> /\ a.transports[1].fileParams = <<>>)
        => (mOutcome = "FormatError" /\ mErrored)

\* C10: a group with zero children in an otherwise complete manifest still
\* yields a group node, empty and collapsible, and the rest of the manifest is
\* parsed: the load succeeds and the other groups' entries are all there.
EmptyGroupStillShown ==
    (/\ mPc = "done" /\ mShape = "xmlAttr" /\ WellFormed(mShape, mDoc)
     /\ ~NoEmptyGroup(mDoc))
        => /\ mOutcome = "ok"
           /\ Len(mData) = Len(mDoc.items)
           /\ \A g \in 1..Len(mDoc.items) :
                 /\ mData[g].label = mDoc.items[g].name
                 /\ mData[g].hasChildren
                 /\ mData[g].state = "Collapsed"
                 /\ Len(mData[g].children) = Len(mDoc.items[g].assignments)

\* every list getChildren can return: the roots and each node's children
RECURSIVE SiblingLists(_)
SiblingLists(nodes) ==
    {nodes} \cup UNION {SiblingLists(nodes[i].children) : i \in {j \in 1..Len(nodes) : nodes[j].hasChildren}}

\* ascending without regard to case
AscendingIgnoringCase(nodes) ==
    \A i, j \in 1..Len(nodes) : i < j => ComparePrimary(nodes[i].label, nodes[j].label) # "gt"

GroupsFirst(nodes) ==
    \A i, j \in 1..Len(nodes) : i < j => ~(~nodes[i].hasChildren /\ nodes[j].hasChildren)

\* C11: in the download tree and in the upload tree, every list getChildren
\* returns (below the site root, whose label is the site's name) has its
\* siblings in ascending case-insensitive label order, group nodes before
\* entry nodes.
SiblingsSorted ==
    mPc = "done" =>
        \A nodes \in SiblingLists(mData) :
            Len(nodes) > 1 => AscendingIgnoringCase(nodes) /\ GroupsFirst(nodes)

\* C12: once a refresh has completed, whether its fetch succeeded or failed,
\* the roots the provider presents hold no node of an earlier fetch: the list
\* is empty or was produced by the fetch of that refresh.
RefreshDiscardsOldData ==
    (mPc = "done" /\ mGen > 1) => (mData = <<>> \/ mDataGen = mGen)

RECURSIVE AllNodes(_)
AllNodes(nodes) ==
    IF nodes = <<>> THEN <<>>
    ELSE <<Head(nodes)>> \o AllNodes(Head(nodes).children) \o AllNodes(Tail(nodes))

IsErrorNode(node) == node.label \in {ErrorLabel, FailedToLoad}

\* the well-formed manifest of a download shape that has no entries
EmptyManifest(shape) ==
    IF shape \in {"json", "sections"} THEN Doc(TRUE, "ok", "array", <<>>, <<>>, <<>>)
    ELSE Doc(TRUE, "ok", "site", SiteName, <<>>, <<>>)

\* C13: when the body served for the download manifest cannot be parsed or
\* has another structure than a manifest, the list getChildren returns is not
\* empty, holds an explicit error node, and differs from the list returned for
\* a well-formed manifest with zero entries.
ParseFailureShowsErrorNode ==
    (/\ mPc = "done" /\ mShape \in {"json", "xml2js", "sections"}
     /\ Served(mDoc) /\ mDoc.kind \in {"garbage", "other"})
        => /\ mData # <<>>
           /\ \E i \in 1..Len(AllNodes(mData)) : IsErrorNode(AllNodes(mData)[i])
           /\ mData # FetchData(mShape, EmptyManifest(mShape)).val

\* C15: when the request for a manifest fails or is answered with a
\* non-success status, the fetch ends as a failure (a rejection or an error
\* node) and nothing of the response body is presented as manifest data; for
\* the download manifests and for the submission targets.
NonSuccessIsNetworkError ==
    (mPc = "done" /\ mDoc.configured /\ mDoc.response # "ok")
        => /\ mOutcome # "ok" \/ \E i \in 1..Len(AllNodes(mData)) : IsErrorNode(AllNodes(mData)[i])
           /\ mDataGen = mGen => Leaves(mData) = <<>>

(***************************************************************************)
(* Properties of the commands                                              *)
(***************************************************************************)
\* C14: every error raised inside the download pipeline or inside the
\* asynchronous action of uploadItem is caught by the command that started
\* it: no invocation ends as a rejected promise that nobody handles.
NoUnhandledRejection ==
    /\ cmd # "unhandled"
    /\ ~uUnhandled

Range(seq) == {seq[k] : k \in 1..Len(seq)}

\* the group and the entry of the manifest that the invoked leaf stands for
ManifestGroup == CHOOSE g \in Range(uDoc.items) : g.name = uItem.group
ManifestEntry == CHOOSE a \in Range(ManifestGroup.assignments) : a.name = uItem.assignment.name

\* C16: the ignore list handed to glob when the files to archive are
\* enumerated holds exactly the root exclude patterns, the enclosing group's
\* exclude patterns, the entry's own exclude patterns and the six built-in
\* cloud-document patterns (as a set: a pattern listed twice counts once).
IgnoreListIsUnion ==
    (uPc \in {"post", "done"} /\ uIgnore # <<>>)
        => Range(uIgnore) = Range(uDoc.excludes) \cup Range(ManifestGroup.excludes)
                            \cup Range(ManifestEntry.excludes) \cup Range(BuiltInPatterns)

IsNamed(f, base, ext) == f.base = base /\ f.ext = ext

\* C17: when the submitted project's src directory holds Main.java and a
\* .gdoc file, the archive holds Main.java and no file ending in .gdoc,
\* whether src itself or the project folder above it was picked.
GdocLeftOut ==
    (uPc \in {"post", "done"} /\ uIgnore # <<>> /\ uDir \in Folders)
        => /\ \E f \in uArchive : IsNamed(f, "Main", ".java")
           /\ \A f \in uArchive : f.ext # ".gdoc"

\* C18: once a placeholder token has been resolved in the session, no input
\* box is shown for it again, in the same or in a later invocation of
\* uploadItem: every input box is shown for a token that has no stored value.
ResolvedTokenNotPromptedAgain ==
    \A k \in 1..Len(uPrompts) : uPrompts[k].prefilled = ""

\* C19: when the POST completed and the response holds no anchor with an
\* href, the user is told so with a warning and no error message is shown.
MissingResultsUrlIsWarning ==
    (uPc = "done" /\ uPost = "noAnchor")
        => /\ \E m \in uMsgs : m.level = Warning("").level
           /\ \A m \in uMsgs : m.level # Error("").level

\* the names of the .jar files directly inside directory p
JarNames(f, p) == {nm \in EntryNames(f, p) : EndsWithJar(nm)}

\* the Java classpath setting createJavaProject writes for a project's lib
LibReference == "lib/**/*.jar"

\* C20: once downloadAssignment has succeeded (the project folder is opened),
\* the project has a lib directory holding every .jar the JARS library cache
\* of the workspace held, and a .vscode/settings.json that references lib.
DownloadedProjectHasLibraries ==
    cmd = "opened"
        => /\ IsDir(fs, Append(dest, NLib))
           /\ JarNames(fs0, CacheDir(stored)) \subseteq JarNames(fs, Append(dest, NLib))
           /\ \E n \in fs : /\ n.path = dest \o <<NVscode, NSettings>>
                            /\ n.kind = "file"
                            /\ n.data = LibReference

(***************************************************************************)
(* The cancellable download command (downloadAssignmentCommand): one       *)
(* https.get piped into a write stream at destPath, inside a cancellable   *)
(* withProgress.  Each action is one callback of the event loop.  File     *)
(* operations take effect in the order they were issued.                   *)
(***************************************************************************)
MaxChunks == 2

UnlinkReasons == {"cancelled", "streamError", "requestError"}

CdInit ==
    /\ cdPc = "start"
    /\ cdDir \in BOOLEAN
    /\ cdRequest = "none"
    /\ cdLeft \in 0..MaxChunks
    /\ cdStream = "none"
    /\ cdToken = FALSE
    /\ cdListener = "none"
    /\ cdUnlinks = {}
    /\ cdFile \in {"none", "old"}
    /\ cdPromise = "pending"
    /\ cdMsgs = {}

\* reject(...) / resolve() of the promise: only the first call settles it
Settle(how) == IF cdPromise = "pending" THEN how ELSE cdPromise

\* the command up to https.get
CdInvoke ==
    /\ cdPc = "start"
    /\ IF ~cdDir
       THEN /\ cdPc' = "returned"
            /\ cdMsgs' = cdMsgs \cup {"Please create a project first"}
            /\ UNCHANGED cdRequest
       ELSE /\ cdPc' = "running"
            /\ cdRequest' = "sent"
            /\ UNCHANGED cdMsgs
    /\ UNCHANGED <<cdDir, cdLeft, cdStream, cdToken, cdListener, cdUnlinks, cdFile, cdPromise>>
    /\ UNCHANGED <<sanVars, dlVars, mfVars, upVars, ccVars, rfVars, cjVars>>

\* the response callback of https.get
CdResponse ==
    /\ cdRequest = "sent"
    /\ \E statusCode \in {200, 404} :
        IF statusCode # 200
        THEN /\ cdRequest' = "responded"
             /\ cdPromise' = Settle("rejected")
             /\ UNCHANGED <<cdStream, cdListener>>
        ELSE /\ cdRequest' = "responded"
             /\ cdStream' = "opening"
             \* a listener added to a token that is already cancelled is called
             \* from a zero-delay timer
             /\ cdListener' = IF cdToken THEN "scheduled" ELSE "registered"
             /\ UNCHANGED cdPromise
    /\ UNCHANGED <<cdPc, cdDir, cdLeft, cdToken, cdUnlinks, cdFile, cdMsgs>>
    /\ UNCHANGED <<sanVars, dlVars, mfVars, upVars, ccVars, rfVars, cjVars>>

\* request.on('error'): the request fails before a response arrived
CdRequestError ==
    /\ cdRequest = "sent"
    /\ cdRequest' = "errored"
    /\ cdUnlinks' = cdUnlinks \cup {"requestError"}
    /\ UNCHANGED <<cdPc, cdDir, cdLeft, cdStream, cdToken, cdListener, cdFile, cdPromise, cdMsgs>>
    /\ UNCHANGED <<sanVars, dlVars, mfVars, upVars, ccVars, rfVars, cjVars>>

\* fs.createWriteStream: the open (create or truncate) completes
CdOpenDone ==
    /\ cdStream = "opening"
    /\ cdStream' = "open"
    /\ cdFile' = "new"
    /\ UNCHANGED <<cdPc, cdDir, cdRequest, cdLeft, cdToken, cdListener, cdUnlinks, cdPromise, cdMsgs>>
    /\ UNCHANGED <<sanVars, dlVars, mfVars, upVars, ccVars, rfVars, cjVars>>

\* fs.createWriteStream: the open fails; fileStream.on('error')
CdOpenFails ==
    /\ cdStream = "opening"
    /\ cdStream' = "errored"
    /\ cdUnlinks' = cdUnlinks \cup {"streamError"}
    /\ UNCHANGED <<cdPc, cdDir, cdRequest, cdLeft, cdToken, cdListener, cdFile, cdPromise, cdMsgs>>
    /\ UNCHANGED <<sanVars, dlVars, mfVars, upVars, ccVars, rfVars, cjVars>>

\* response.pipe(fileStream): one chunk arrives and is written
CdData ==
    /\ cdRequest = "responded"
    /\ cdStream = "open"
    /\ cdLeft > 0
    /\ cdLeft' = cdLeft - 1
    /\ UNCHANGED <<cdPc, cdDir, cdRequest, cdStream, cdToken, cdListener, cdUnlinks, cdFile, cdPromise, cdMsgs>>
    /\ UNCHANGED <<sanVars, dlVars, mfVars, upVars, ccVars, rfVars, cjVars>>

\* response.pipe(fileStream): the response ends, the pipe calls fileStream.end()
CdResponseEnd ==
    /\ cdRequest = "responded"
    /\ cdStream = "open"
    /\ cdLeft = 0
    /\ cdRequest' = "ended"
    /\ cdStream' = "ending"
    /\ UNCHANGED <<cdPc, cdDir, cdLeft, cdToken, cdListener, cdUnlinks, cdFile, cdPromise, cdMsgs>>
    /\ UNCHANGED <<sanVars, dlVars, mfVars, upVars, ccVars, rfVars, cjVars>>

\* fileStream.on('finish')
CdFinish ==
    /\ cdStream = "ending"
    /\ cdStream' = "finished"
    /\ cdMsgs' = cdMsgs \cup {"Successfully downloaded"}
    /\ cdPromise' = Settle("resolved")
    /\ UNCHANGED <<cdPc, cdDir, cdRequest, cdLeft, cdToken, cdListener, cdUnlinks, cdFile>>
    /\ UNCHANGED <<sanVars, dlVars, mfVars, upVars, ccVars, rfVars, cjVars>>

\* the body of the onCancellationRequested listener
CancelListener ==
    /\ cdRequest' = IF cdRequest = "responded" THEN "destroyed" ELSE cdRequest
    /\ cdUnlinks' = cdUnlinks \cup {"cancelled"}
    /\ cdListener' = "fired"

\* the user presses Cancel on the progress notification, which is shown
\* until the promise settles
CdCancel ==
    /\ cdPc = "running"
    /\ cdPromise = "pending"
    /\ ~cdToken
    /\ cdToken' = TRUE
    /\ IF cdListener = "registered"
       THEN CancelListener
       ELSE UNCHANGED <<cdRequest, cdUnlinks, cdListener>>
    /\ UNCHANGED <<cdPc, cdDir, cdLeft, cdStream, cdFile, cdPromise, cdMsgs>>
    /\ UNCHANGED <<sanVars, dlVars, mfVars, upVars, ccVars, rfVars, cjVars>>

\* the zero-delay timer of a listener added after the cancellation
CdListenerTimer ==
    /\ cdListener = "scheduled"
    /\ CancelListener
    /\ UNCHANGED <<cdPc, cdDir, cdLeft, cdStream, cdToken, cdFile, cdPromise, cdMsgs>>
    /\ UNCHANGED <<sanVars, dlVars, mfVars, upVars, ccVars, rfVars, cjVars>>

\* the callback of fs.unlink(destPath, () => reject(...)); an error of the
\* unlink itself (no such file) is ignored by the callback
CdUnlinkDone ==
    /\ cdStream # "opening"
    /\ \E reason \in cdUnlinks :
        /\ cdUnlinks' = cdUnlinks \ {reason}
        /\ cdFile' = "none"
        /\ cdPromise' = Settle("rejected")
    /\ UNCHANGED <<cdPc, cdDir, cdRequest, cdLeft, cdStream, cdToken, cdListener, cdMsgs>>
    /\ UNCHANGED <<sanVars, dlVars, mfVars, upVars, ccVars, rfVars, cjVars>>

CdNext ==
    \/ CdInvoke
    \/ CdResponse
    \/ CdRequestError
    \/ CdOpenDone
    \/ CdOpenFails
    \/ CdData
    \/ CdResponseEnd
    \/ CdFinish
    \/ CdCancel
    \/ CdListenerTimer
    \/ CdUnlinkDone

InitCancel == CdInit /\ DlIdle /\ SanIdle /\ MfIdle /\ UpIdle /\ CcIdle /\ RfIdle /\ CjIdle
SpecCancel == InitCancel /\ [][CdNext]_vars

\* the callbacks the event loop is bound to run; the arrival of the response
\* and of its chunks is up to the server
FairSpecCancel ==
    /\ SpecCancel
    /\ WF_vars(CdOpenDone \/ CdOpenFails) /\ WF_vars(CdFinish)
    /\ WF_vars(CdListenerTimer) /\ WF_vars(CdUnlinkDone)

(***************************************************************************)
(* Properties of the cancellable download command                          *)
(***************************************************************************)
\* nothing the command has started is still to run
CdQuiescent ==
    /\ cdPromise # "pending"
    /\ cdUnlinks = {}
    /\ cdStream \notin {"opening", "ending"}
    /\ cdListener # "scheduled"

\* C21: when cancellation was requested after the download started, the
\* operation ends rejected and no file written by it remains at the
\* destination path.
CancelledDownloadEndsRejected ==
    (cdToken /\ CdQuiescent) => (cdPromise = "rejected" /\ cdFile # "new")

\* C21, the progress half: a requested cancellation leads to the end of the
\* operation.
CancelEventuallyEnds == cdToken ~> (cdPromise # "pending")

(***************************************************************************)
(* Two invocations of downloadAndUnzip (part_004) for the same entry: the  *)
(* command is registered without any guard, so the entry can be clicked    *)
(* again while an earlier download is under way.  Both work on one file    *)
(* system; each has its own mkdtemp directory.                             *)
(***************************************************************************)
CcLabel == LHW1
CcDest  == DestPath("vscodeFs", BaseDir, CcLabel)

\* fs.mkdtempSync(path.join(os.tmpdir(), 'itsc2214-unzip-')): a fresh name each time
CcTemp(i) == Append(TmpDir, Append(NUnzip, IF i = 1 THEN "1" ELSE "2"))

\* past the overwrite prompt and not yet settled
Populating(i) == ccPc[i] \in {"fetch", "extract", "finish"}

\* the record of what invocation i does to the destination while the
\* invocation started before it is populating it
Touch(i, ops) == IF i = 2 /\ Populating(1) THEN ccTouched \cup ops ELSE ccTouched

CcInit ==
    /\ ccFs \in InitialFs("vscodeFs", CcLabel)
    /\ ccArchive \in {PieceFile, PieceFoo \cup PieceFile}
    /\ ccPc = [i \in Invocations |-> IF i = 1 THEN "start" ELSE "idle"]
    /\ ccResult = [i \in Invocations |-> Pending]
    /\ ccTouched = {}

\* the entry is clicked again once the first invocation is under way
CcInvokeAgain ==
    /\ ccPc[2] = "idle"
    /\ ccPc[1] # "start"
    /\ ccPc' = [ccPc EXCEPT ![2] = "start"]
    /\ UNCHANGED <<ccFs, ccArchive, ccResult, ccTouched>>
    /\ UNCHANGED <<sanVars, dlVars, mfVars, upVars, cdVars, rfVars, cjVars>>

\* stat of the destination, then the prompt or createDirectory
CcStart(i) ==
    /\ ccPc[i] = "start"
    /\ IF Exists(ccFs, CcDest)
       THEN /\ ccPc' = [ccPc EXCEPT ![i] = "prompt"]
            /\ UNCHANGED <<ccFs, ccTouched>>
       ELSE /\ ccPc' = [ccPc EXCEPT ![i] = "fetch"]
            /\ ccFs' = MkdirP(ccFs, CcDest)
            /\ ccTouched' = Touch(i, {"write"})
    /\ UNCHANGED <<ccArchive, ccResult>>
    /\ UNCHANGED <<sanVars, dlVars, mfVars, upVars, cdVars, rfVars, cjVars>>

\* the answer to "Overwrite?": 'Yes' deletes and recreates the destination
CcPromptAnswer(i) ==
    /\ ccPc[i] = "prompt"
    /\ \E c \in {"Yes", "No"} :
        /\ ccFs' = OverwriteAnswered("vscodeFs", ccFs, CcDest, c)
        /\ IF c = "Yes"
           THEN /\ ccPc' = [ccPc EXCEPT ![i] = "fetch"]
                /\ ccTouched' = Touch(i, {"delete", "write"})
                /\ UNCHANGED ccResult
           ELSE /\ ccPc' = [ccPc EXCEPT ![i] = "done"]
                /\ ccResult' = [ccResult EXCEPT ![i] = ReturnedUndef]
                /\ UNCHANGED ccTouched
    /\ UNCHANGED ccArchive
    /\ UNCHANGED <<sanVars, dlVars, mfVars, upVars, cdVars, rfVars, cjVars>>

\* fetch(itemData.url) settles
CcFetch(i) ==
    /\ ccPc[i] = "fetch"
    /\ \E o \in {"ok", "notOk"} :
        IF o = "ok"
        THEN /\ ccPc' = [ccPc EXCEPT ![i] = "extract"]
             /\ ccFs' = MkdirP(ccFs, CcTemp(i))
             /\ UNCHANGED ccResult
        ELSE /\ ccPc' = [ccPc EXCEPT ![i] = "done"]
             /\ ccResult' = [ccResult EXCEPT ![i] = ReturnedUndef]
             /\ UNCHANGED ccFs
    /\ UNCHANGED <<ccArchive, ccTouched>>
    /\ UNCHANGED <<sanVars, dlVars, mfVars, upVars, cdVars, rfVars, cjVars>>

\* the extract stream emits 'finish'
CcExtractFinish(i) ==
    /\ ccPc[i] = "extract"
    /\ ccFs' = ExtractInto(ccFs, CcTemp(i), ccArchive)
    /\ ccPc' = [ccPc EXCEPT ![i] = "finish"]
    /\ UNCHANGED <<ccArchive, ccResult, ccTouched>>
    /\ UNCHANGED <<sanVars, dlVars, mfVars, upVars, cdVars, rfVars, cjVars>>

\* the 'finish' handler: workspace.fs.rename does not overwrite, so the move
\* stops at the first entry whose name is already in the destination
CcFinish(i) ==
    /\ ccPc[i] = "finish"
    /\ LET f1    == StripMetadata("vscodeFs", ccFs, CcTemp(i))
           root  == ProjectRoot(f1, CcTemp(i))
           names == EntryNames(f1, root)
           taken == {x \in names : Exists(f1, Append(CcDest, x))}
       IN  IF taken = {}
           THEN /\ ccFs' = AfterMove("vscodeFs",
                                     RmRf(MoveEntries(f1, root, CcDest, names), CcTemp(i)), CcDest)
                /\ ccResult' = [ccResult EXCEPT ![i] = Resolved(CcDest)]
                /\ ccTouched' = Touch(i, {"write"})
           ELSE \E moved \in SUBSET (names \ taken) :
                /\ ccFs' = MoveEntries(f1, root, CcDest, moved)
                /\ ccResult' = [ccResult EXCEPT ![i] = Rejected]
                /\ ccTouched' = Touch(i, IF moved = {} THEN {} ELSE {"write"})
    /\ ccPc' = [ccPc EXCEPT ![i] = "done"]
    /\ UNCHANGED ccArchive
    /\ UNCHANGED <<sanVars, dlVars, mfVars, upVars, cdVars, rfVars, cjVars>>

CcNext ==
    \/ CcInvokeAgain
    \/ \E i \in Invocations : CcStart(i)
    \/ \E i \in Invocations : CcPromptAnswer(i)
    \/ \E i \in Invocations : CcFetch(i)
    \/ \E i \in Invocations : CcExtractFinish(i)
    \/ \E i \in Invocations : CcFinish(i)

InitConcurrent == CcInit /\ DlIdle /\ SanIdle /\ MfIdle /\ UpIdle /\ CdIdle /\ RfIdle /\ CjIdle
SpecConcurrent == InitConcurrent /\ [][CcNext]_vars

(***************************************************************************)
(* Properties of concurrent invocations                                    *)
(***************************************************************************)
\* C22: two invocations are never populating the same destination at the
\* same time, and an invocation started while an earlier one is downloading
\* or extracting neither deletes nor writes the destination.
OnePipelinePerDestination ==
    /\ ~(Populating(1) /\ Populating(2))
    /\ ccTouched = {}

(***************************************************************************)
(* Further properties of uploadItem                                        *)
(***************************************************************************)
\* the invocation ended at a dismissed dialog or input box
Dismissed == uPc = "done" /\ Info("Operation canceled.") \in uMsgs

\* C23: when a folder dialog or an input box of uploadItem was dismissed, no
\* POST was sent and the persisted store holds no value entered during that
\* submission: it is as it was when the submission began.
DismissedSubmissionLeavesNoTrace ==
    Dismissed => (uPost = "none" /\ uGlobal = uGlobal0)

(***************************************************************************)
(* Further properties of downloadAndUnzip                                  *)
(***************************************************************************)
\* C24: whatever the entry label, the sanitized name is not empty and the
\* destination lies strictly below the workspace root, and a 'Yes' to the
\* overwrite prompt leaves what the root held next to the destination.
DestinationStrictlyBelowRoot ==
    /\ dest # NoPath => (Sanitize(label) # <<>> /\ IsPrefix(stored, dest) /\ dest # stored)
    /\ choice = "Yes" => \A n \in fs0 : n.path = Append(stored, NOther) => n \in fs

\* the tokens left in a value
TokensIn(value) == {value[k] : k \in 1..Len(value)} \cap Tokens

\* C25: no field value and no archive filename of the multipart body that is
\* posted holds the literal text of a placeholder token.
NoLiteralTokenSent ==
    (uPc = "post" \/ uPost # "none") => \A k \in 1..Len(uBody) : TokensIn(uBody[k].value) = {}

\* C26: when the re-fetched tree holds no group and assignment with the
\* selected names, or the fetch returned nothing, the submission goes on
\* with the transport and excludes of the entry that was selected.
MissingEntryFallsBackToSelection ==
    uLookup = "missing" => (uAssignment = uItem.assignment /\ ~uUnhandled)

(***************************************************************************)
(* Overlapping refresh() calls of UploadDataProvider: the constructor      *)
(* makes the first call, the refresh command makes more, and nothing       *)
(* waits for a call to end before the next begins.                         *)
(***************************************************************************)
\* the state once the constructor's refresh() has run up to its await
RfInit ==
    /\ rfStarted = 1
    /\ rfPc = [i \in 1..MaxRefreshes |-> IF i = 1 THEN "fetching" ELSE "idle"]
    /\ rfData = 0
    /\ rfLoaded = FALSE
    /\ rfErrored = FALSE
    /\ rfFired = 0

\* refresh() up to the await of fetchData(): beforeLoad
RefreshCall ==
    /\ rfStarted < MaxRefreshes
    /\ rfStarted' = rfStarted + 1
    /\ rfPc' = [rfPc EXCEPT ![rfStarted + 1] = "fetching"]
    /\ rfErrored' = FALSE
    /\ rfLoaded' = FALSE
    /\ UNCHANGED <<rfData, rfFired>>
    /\ UNCHANGED <<sanVars, dlVars, mfVars, upVars, cdVars, ccVars, cjVars>>

\* fetchData() of call i resolves: this.data is assigned, afterLoad, fire
RefreshResolves(i) ==
    /\ rfPc[i] = "fetching"
    /\ rfPc' = [rfPc EXCEPT ![i] = "loaded"]
    /\ rfData' = i
    /\ rfErrored' = FALSE
    /\ rfLoaded' = TRUE
    /\ rfFired' = rfFired + 1
    /\ UNCHANGED rfStarted
    /\ UNCHANGED <<sanVars, dlVars, mfVars, upVars, cdVars, ccVars, cjVars>>

\* fetchData() of call i rejects: onLoadError, fire
RefreshRejects(i) ==
    /\ rfPc[i] = "fetching"
    /\ rfPc' = [rfPc EXCEPT ![i] = "failed"]
    /\ rfErrored' = TRUE
    /\ rfFired' = rfFired + 1
    /\ UNCHANGED <<rfStarted, rfData, rfLoaded>>
    /\ UNCHANGED <<sanVars, dlVars, mfVars, upVars, cdVars, ccVars, cjVars>>

RfNext ==
    \/ RefreshCall
    \/ \E i \in 1..MaxRefreshes : RefreshResolves(i)
    \/ \E i \in 1..MaxRefreshes : RefreshRejects(i)

InitRefresh == RfInit /\ DlIdle /\ SanIdle /\ MfIdle /\ UpIdle /\ CdIdle /\ CcIdle /\ CjIdle
SpecRefresh == InitRefresh /\ [][RfNext]_vars

(***************************************************************************)
(* Properties of overlapping refreshes                                     *)
(***************************************************************************)
AllRefreshesCompleted == \A i \in 1..rfStarted : rfPc[i] # "fetching"

\* C27: the flags targetsLoaded and targetsErrored are never both true, and
\* once every refresh has completed, the data of the most recently started
\* one, when it loaded, is the data presented.
LatestRefreshWins ==
    /\ ~(rfLoaded /\ rfErrored)
    /\ (AllRefreshesCompleted /\ rfPc[rfStarted] = "loaded") => rfData = rfStarted

(***************************************************************************)
(* createJavaProject and setupDirectory.  Revisions:                       *)
(*   "early"     part_006:22-146    Desktop folder, nothing persisted      *)
(*   "sync"      CreateProject.ts:84-181   inline setup, fs module         *)
(*   "projects"  utils.ts:123-189   projects under <dir>/projects          *)
(*   "copy"      utils.ts:299-394   offers a copy of an existing project   *)
(*   "setup"     utils.ts:236-268   setupDirectory run as a command        *)
(***************************************************************************)
MaxCopies == 2

CjRevisions == {"early", "sync", "projects", "copy", "setup"}

NAlt      == <<"c">>
NProj     == <<"P">>
NNew      == <<"N">>
NDot      == <<".">>
NSrc      == <<"s","r","c">>
NMainJava == <<"M","a","i","n",".","j","a","v","a">>

\* a folder picked in the "Custom Location" dialog, joined with 'itsc2214'
AltDir == <<NAlt>>

\* the values typed into the project-name input box
NamePool == {NProj, NNew, NDot, <<>>, <<"/">>}

\* `_copy_${projectName}_${n}`
CopyName(name, n) == <<"_copy_">> \o name \o <<"_", ToString(n)>>

\* the directory projects are created in
ProjectsParent(r, base) == IF r = "projects" THEN Append(base, NProjects) ELSE base

\* path.join / Uri.joinPath of the parent and a typed name: '.' is the parent
ProjectPath(parent, name) == IF name = NDot THEN parent ELSE Append(parent, name)

\* fs.writeFileSync / workspace.fs.writeFile: creates or replaces the file
WriteFile(f, path, data) == {n \in f : n.path # path} \cup {File(path, data)}

\* the jar-copy loop of the copyJarsToDir revisions: every .jar file of from
\* is copied into lib; a source that cannot be read copies nothing
CopyJarsFrom(f, from, lib) ==
    LET f1   == MkdirP(f, lib)
        jars == {n \in ReadDir(f1, from) : n.kind = "file" /\ EndsWithJar(n.path[Len(n.path)])}
    IN  ExtractInto(f1, lib, {[n EXCEPT !.path = <<n.path[Len(n.path)]>>] : n \in jars})

\* areJarsPresent
AreJarsPresent(f, base) == JarNames(f, CacheDir(base)) # {}

\* a mutation of SetupFs: the path is stored without the directory being made
SetupFsNothing(r, f, dir) == f

\* the directory creation of the setup step
SetupFs(r, f, dir) ==
    IF r = "early"
    THEN IF Exists(f, dir) THEN f ELSE MkdirP(f, CacheDir(dir))
    ELSE CopyJarsFrom(MkdirP(f, dir), ExtJarsDir, CacheDir(dir))

\* a mutation of NameInUse: no existence check while typing
NameInUseIgnored(r, f, path) == FALSE

\* validateInput's "already exists" check of the revisions that have one
NameInUse(r, f, path) == r \in {"sync", "projects"} /\ Exists(f, path)

\* validateInput
Validate(r, f, base, value) ==
    IF value = <<>> THEN "Project name cannot be empty."
    ELSE IF \E k \in 1..Len(value) : value[k] \in {"/", "\\", ":", "*", "?", "<", ">", "|"}
         THEN "Invalid characters in project name."
    ELSE IF NameInUse(r, f, ProjectPath(ProjectsParent(r, base), value))
         THEN "A project with this name already exists."
    ELSE "ok"

\* a mutation of CopyTaken: the first candidate is taken as free
CopyTakenNever(f, path) == FALSE

\* the stat of the copy-name search
CopyTaken(f, path) == Exists(f, path)

\* the classpath entry the "early" revision writes: the JARS folder itself
JarsReference == "JARS/*.jar"

\* the project skeleton each revision writes
Scaffold(r, f, base, project) ==
    LET src  == Append(project, NSrc)
        lib  == Append(project, NLib)
        vsc  == Append(project, NVscode)
        dirs == MkdirP(MkdirP(MkdirP(f, src), lib), vsc)
        jars == CASE r = "early"    -> dirs
                  [] r = "projects" -> CopyJarsFrom(dirs, ExtJarsDir, lib)
                  [] OTHER          -> CopyJarsFrom(dirs, CacheDir(base), lib)
        main == WriteFile(jars, Append(src, NMainJava), "main")
    IN  WriteFile(main, Append(vsc, NSettings), IF r = "early" THEN JarsReference ELSE LibReference)

CjOutside == {Dir(<<NExt>>), Dir(ExtJarsDir), File(ExtJarsDir \o <<NJar>>, "jar")}

\* a workspace directory with or without the cache, the project P and copies of it
CjWorkspace(r, hasCache, hasP, copies) ==
    LET parent == ProjectsParent(r, BaseDir)
        f0 == MkdirP(CjOutside, BaseDir)
        f1 == IF hasCache
              THEN MkdirP(f0, CacheDir(BaseDir)) \cup {File(Append(CacheDir(BaseDir), NCacheJar), "jar")}
              ELSE f0
        f2 == IF hasP
              THEN MkdirP(f1, Append(parent, NProj)) \cup {File(Append(Append(parent, NProj), NOld), "old")}
              ELSE f1
        f3 == IF copies = {} THEN f2 ELSE MkdirP(f2, parent)
    IN  f3 \cup {Dir(Append(parent, CopyName(NProj, k))) : k \in copies}

CjInitialFs(r) ==
    {CjOutside, MkdirP(CjOutside, AltDir)}
    \cup {CjWorkspace(r, hasCache, hasP, copies) :
            hasCache \in BOOLEAN, hasP \in BOOLEAN,
            copies \in IF r = "copy" THEN SUBSET (1..MaxCopies) ELSE {{}}}

CjInit ==
    /\ cjRev \in CjRevisions
    /\ cjStored \in IF cjRev = "early" THEN {NoPath} ELSE {NoPath, BaseDir}
    /\ cjStored0 = cjStored
    /\ cjFs \in CjInitialFs(cjRev)
    /\ cjFs0 = cjFs
    /\ cjPc = "start"
    /\ cjBase = NoPath
    /\ cjName = <<>>
    /\ cjProject = NoPath
    /\ cjChoice = "none"
    /\ cjN = 0
    /\ cjCancelled = FALSE
    /\ cjCreated = FALSE

\* the command up to its first dialog: the stored directory is looked up and,
\* in the utils.ts revisions, forgotten when it is gone
CjStart ==
    /\ cjPc = "start"
    /\ LET gone == cjStored # NoPath /\ ~Exists(cjFs, cjStored) IN
       CASE cjRev = "setup" ->
              cjPc' = "setup" /\ UNCHANGED <<cjStored, cjBase>>
         [] cjRev = "early" ->
              /\ cjBase' = BaseDir
              /\ cjPc' = IF Exists(cjFs, BaseDir) THEN "jars" ELSE "setup"
              /\ UNCHANGED cjStored
         [] cjRev = "sync" ->
              /\ cjBase' = IF cjStored = NoPath \/ gone THEN NoPath ELSE cjStored
              /\ cjPc' = IF cjStored = NoPath \/ gone THEN "setup" ELSE "jars"
              /\ UNCHANGED cjStored
         [] OTHER ->
              /\ cjStored' = IF gone THEN NoPath ELSE cjStored
              /\ cjBase' = cjStored'
              /\ cjPc' = IF cjStored' = NoPath THEN "setup" ELSE "jars"
    /\ UNCHANGED <<cjRev, cjStored0, cjFs, cjFs0, cjName, cjProject, cjChoice, cjN, cjCancelled, cjCreated>>
    /\ UNCHANGED <<sanVars, dlVars, mfVars, upVars, cdVars, ccVars, rfVars>>

\* the setup dialogs: dismissed, or a location is chosen, the directory is
\* made and then stored
CjSetup ==
    /\ cjPc = "setup"
    /\ \E pick \in {NoPath, BaseDir, AltDir} :
        IF pick = NoPath
        THEN /\ cjCancelled' = TRUE
             /\ cjPc' = "done"
             /\ UNCHANGED <<cjFs, cjStored, cjBase>>
        ELSE /\ cjFs' = SetupFs(cjRev, cjFs, pick)
             /\ cjStored' = IF cjRev = "early" THEN cjStored ELSE pick
             /\ cjBase' = pick
             /\ cjPc' = CASE cjRev \in {"setup", "projects"} -> "done"
                          [] cjRev = "sync" -> "name"
                          [] OTHER -> "jars"
             /\ UNCHANGED cjCancelled
    /\ UNCHANGED <<cjRev, cjStored0, cjFs0, cjName, cjProject, cjChoice, cjN, cjCreated>>
    /\ UNCHANGED <<sanVars, dlVars, mfVars, upVars, cdVars, ccVars, rfVars>>

\* the check for the library cache: the "early" revision gives up without a
\* JARS folder, the others offer to reinstall the jars
CjJars ==
    /\ cjPc = "jars"
    /\ IF cjRev = "early"
       THEN /\ cjPc' = IF Exists(cjFs, CacheDir(cjBase)) THEN "name" ELSE "done"
            /\ UNCHANGED cjFs
       ELSE /\ cjPc' = "name"
            /\ IF AreJarsPresent(cjFs, cjBase)
               THEN UNCHANGED cjFs
               ELSE \E answer \in {"Reinstall JARs", "dismissed"} :
                      cjFs' = IF answer = "dismissed" THEN cjFs
                              ELSE CopyJarsFrom(cjFs, ExtJarsDir, CacheDir(cjBase))
    /\ UNCHANGED <<cjRev, cjStored, cjStored0, cjFs0, cjBase, cjName, cjProject, cjChoice, cjN,
                   cjCancelled, cjCreated>>
    /\ UNCHANGED <<sanVars, dlVars, mfVars, upVars, cdVars, ccVars, rfVars>>

\* the input box: dismissed, or a value that validateInput lets through is
\* accepted; then the existence check that follows the input box
CjName ==
    /\ cjPc = "name"
    /\ \/ /\ cjPc' = "done"
          /\ UNCHANGED <<cjName, cjProject, cjFs0>>
       \/ \E typed \in NamePool :
          /\ Validate(cjRev, cjFs, cjBase, typed) = "ok"
          /\ cjName' = typed
          /\ cjFs0' = cjFs
          /\ cjProject' = ProjectPath(ProjectsParent(cjRev, cjBase), typed)
          /\ cjPc' = IF cjRev \in {"early", "copy"} /\ Exists(cjFs, cjProject')
                     THEN IF cjRev = "early" THEN "done" ELSE "copyPrompt"
                     ELSE "scaffold"
    /\ UNCHANGED <<cjRev, cjStored, cjStored0, cjFs, cjBase, cjChoice, cjN, cjCancelled, cjCreated>>
    /\ UNCHANGED <<sanVars, dlVars, mfVars, upVars, cdVars, ccVars, rfVars>>

\* the answer to "Project already exists. Create a new copy?"
CjCopyPrompt ==
    /\ cjPc = "copyPrompt"
    /\ \E reply \in {"Yes", "No", "dismissed"} :
        /\ cjChoice' = reply
        /\ IF reply = "Yes"
           THEN cjN' = 1 /\ cjPc' = "search"
           ELSE cjN' = cjN /\ cjPc' = "done"
    /\ UNCHANGED <<cjRev, cjStored, cjStored0, cjFs, cjFs0, cjBase, cjName, cjProject, cjCancelled, cjCreated>>
    /\ UNCHANGED <<sanVars, dlVars, mfVars, upVars, cdVars, ccVars, rfVars>>

\* one round of the while (true) loop
CjSearch ==
    /\ cjPc = "search"
    /\ LET candidate == Append(cjBase, CopyName(cjName, cjN)) IN
       IF CopyTaken(cjFs, candidate)
       THEN /\ cjN' = cjN + 1
            /\ UNCHANGED <<cjProject, cjPc>>
       ELSE /\ cjProject' = candidate
            /\ cjPc' = "scaffold"
            /\ UNCHANGED cjN
    /\ UNCHANGED <<cjRev, cjStored, cjStored0, cjFs, cjFs0, cjBase, cjName, cjChoice, cjCancelled, cjCreated>>
    /\ UNCHANGED <<sanVars, dlVars, mfVars, upVars, cdVars, ccVars, rfVars>>

\* the directories and files of the new project are written
CjScaffold ==
    /\ cjPc = "scaffold"
    /\ cjFs' = Scaffold(cjRev, cjFs, cjBase, cjProject)
    /\ cjCreated' = TRUE
    /\ cjPc' = "done"
    /\ UNCHANGED <<cjRev, cjStored, cjStored0, cjFs0, cjBase, cjName, cjProject, cjChoice, cjN, cjCancelled>>
    /\ UNCHANGED <<sanVars, dlVars, mfVars, upVars, cdVars, ccVars, rfVars>>

CjNext ==
    \/ CjStart
    \/ CjSetup
    \/ CjJars
    \/ CjName
    \/ CjCopyPrompt
    \/ CjSearch
    \/ CjScaffold

InitCreate == CjInit /\ DlIdle /\ SanIdle /\ MfIdle /\ UpIdle /\ CdIdle /\ CcIdle /\ RfIdle
SpecCreate == InitCreate /\ [][CjNext]_vars

\* the command's own steps are run by the event loop once they are enabled
FairSpecCreate == SpecCreate /\ WF_vars(CjSearch) /\ WF_vars(CjScaffold)

(***************************************************************************)
(* Properties of createJavaProject and setupDirectory                      *)
(***************************************************************************)

\* the nodes of f at or below path
Under(f, path) == {n \in f : IsPrefix(path, n.path)}

\* C28: once the scaffold is written, the project directory is one that did
\* not exist when the name was accepted, everything that existed then is
\* still there unchanged, and every new node lies in the project directory
\* or is a directory on the way to it.
ScaffoldSparesExisting ==
    cjCreated =>
        /\ ~Exists(cjFs0, cjProject)
        /\ cjFs0 \subseteq cjFs
        /\ \A n \in cjFs \ cjFs0 : IsPrefix(cjProject, n.path) \/ IsPrefix(n.path, cjProject)

\* an existing name was typed and a project was nevertheless created, under
\* a fresh name
ExistingNameReplaced ==
    /\ cjCreated
    /\ cjName = NProj
    /\ Exists(cjFs0, Append(cjBase, NProj))
    /\ cjProject # Append(cjBase, NProj)
    /\ Under(cjFs, cjProject) # {}

\* the copy the search settled on is the first free one
SmallestFreeCopy ==
    (cjChoice = "Yes" /\ cjPc \in {"scaffold", "done"}) =>
        /\ cjN >= 1
        /\ cjProject = Append(cjBase, CopyName(cjName, cjN))
        /\ ~Exists(cjFs0, cjProject)
        /\ \A k \in 1..(cjN - 1) : Exists(cjFs0, Append(cjBase, CopyName(cjName, k)))
        /\ (cjPc = "done" => cjCreated /\ Under(cjFs, cjProject) # {})

\* 'No' or a closed dialog ends the command with nothing written
DeclinedCopyCreatesNothing ==
    cjChoice \in {"No", "dismissed"} => (cjPc = "done" /\ ~cjCreated /\ cjFs = cjFs0)

\* C29: after 'Yes' the project is created as _copy_<name>_<n> for the
\* smallest n >= 1 that is free, the search for n ends and the project is
\* created; after 'No' or a closed dialog nothing is created.
CopySearchFindsSmallestAndEnds ==
    /\ [](SmallestFreeCopy /\ DeclinedCopyCreatesNothing)
    /\ (cjChoice = "Yes") ~> (cjPc = "done" /\ cjCreated)

\* the search passed over taken copies and the project was created
CopyCreatedAfterTakenOnes ==
    /\ cjChoice = "Yes"
    /\ cjPc = "done"
    /\ cjCreated
    /\ cjN >= 2
    /\ Exists(cjFs, Append(Append(Append(cjBase, CopyName(cjName, cjN)), NSrc), NMainJava))

\* the revisions of createJavaProject that persist the workspace root
PersistingCreate   == {"sync", "projects", "copy"}

\* the ones among them that forget a stored directory that is gone
ForgettingCreate   == {"projects", "copy"}

\* a stored path that was set by the command, or that a command of revs has
\* looked at and is past its setup, names an existing directory
StoredNamesDirectory(revs) ==
    (cjStored # NoPath /\ (cjStored # cjStored0 \/ (cjRev \in revs /\ cjPc \notin {"start", "setup"})))
        => Exists(cjFs, cjStored)

\* the step in which the user cancels the setup leaves the stored value alone
CancelKeepsStored == (cjCancelled' /\ ~cjCancelled) => cjStored' = cjStored

\* C30 as stated: the stored root is only set to an existing directory, a
\* cancelled setup leaves it unchanged, and every createJavaProject clears a
\* stored value whose directory is gone.
StoredRootAlwaysValid ==
    [] StoredNamesDirectory(PersistingCreate) /\ [][CancelKeepsStored]_vars

\* C30, amended: the stored root is only set to an existing directory and a
\* cancelled setup leaves it unchanged; the utils.ts revisions of
\* createJavaProject clear a stored value whose directory is gone, while
\* CreateProject.ts keeps it when the setup that follows is cancelled.
StoredRootSetToExistingDirectory ==
    [] StoredNamesDirectory(ForgettingCreate) /\ [][CancelKeepsStored]_vars

\* a stored directory that was gone has been cleared and a newly created
\* one stored in its place
StaleRootReplaced ==
    /\ cjRev \in ForgettingCreate
    /\ cjStored0 = BaseDir
    /\ cjStored = AltDir
    /\ Exists(cjFs, AltDir)
    /\ ~Exists(cjFs, BaseDir)

====
